---- MODULE Spec2Model ----
(***************************************************************************)
(* A model of the seal client of gfusee/seal-sdk-rs: the memoizing cache   *)
(* (cache.rs), the key-server directory and the threshold key fetch        *)
(* (base_client.rs), and the share verifier and combiner (crypto.rs).      *)
(*                                                                         *)
(* The pairing-based primitives of the seal_crypto crate (seal_encrypt,    *)
(* seal_decrypt, elgamal::decrypt, verify_user_secret_key, create_full_id) *)
(* are outside the repository; they are modelled symbolically: a user      *)
(* secret key is the pair (issuing server, full id), an ElGamal encryption *)
(* names the encapsulation key it was made for, and a public key names its *)
(* server.                                                                 *)
(***************************************************************************)
EXTENDS Integers, Sequences, FiniteSets, TLC

(***************************************************************************)
(* Bounds of the model.                                                    *)
(***************************************************************************)
NumServers == 3      \* key servers registered on chain
MaxItems == 2        \* envelopes passed to one direct call of the combiner
MaxResponses == 2    \* responses passed to one direct call of the combiner
NumCallers == 2      \* concurrent try_get_with calls on one cache
MaxTtlInput == 32    \* the largest ttl_min handed to SessionKey::new
MaxRequests == 3     \* get_fetch_key_request calls followed on their own

None == [none |-> TRUE]
NoResponse == <<>>

Servers == 1..NumServers
PackageId == "pkg"
Ids == {"a", "b"}                          \* item ids (the `id` bytes)
EncryptId == "a"                           \* the id the run encrypts under
Payloads == {<<>>, <<0, 1, 2, 3>>}         \* byte payloads, the empty one included
Thresholds == 0..NumServers                \* u8 thresholds, 0 and n included

(***************************************************************************)
(* Sequences helpers.                                                      *)
(***************************************************************************)
Range(s) == {s[i] : i \in 1..Len(s)}

SeqsUpTo(S, n) == UNION {[1..k -> S] : k \in 1..n}

ListsUpTo(S, n) == UNION {[1..k -> S] : k \in 0..n}

\* Server lists up to renaming of the servers: the first server named is 1,
\* the next new one 2, and so on (lists with repeated servers included).
IsCanonical(l) ==
    \A i \in 1..Len(l) :
        l[i] <= 1 + Cardinality({l[j] : j \in 1..(i - 1)})

ServerLists == {l \in SeqsUpTo(Servers, NumServers) : IsCanonical(l)}

Put(map, k, v) == [x \in (DOMAIN map) \cup {k} |-> IF x = k THEN v ELSE map[x]]

EmptyMap == [x \in {} |-> None]

Ok(v) == [ok |-> TRUE, val |-> v]
Err(kind) == [ok |-> FALSE, err |-> [kind |-> kind]]

(***************************************************************************)
(* External primitives (seal_crypto, fastcrypto), modelled symbolically.   *)
(***************************************************************************)
\* create_full_id: a domain-separated, injective encoding of (package, id).
create_full_id(package_id, id) == <<package_id, id>>

\* The user secret key a server derives for a full id from its master key.
UserSecretKey(server, full_id) == [srv |-> server, id |-> full_id]

\* A share that no server's master key produces (corrupted in transit, or
\* forged): it verifies against no public key.
GarbageKey(full_id) == [srv |-> 0, id |-> full_id]

\* The public key registered for a server.
PublicKey(server) == [pk |-> server]

\* elgamal::genkey(rng): the secret key, public key and verification key of
\* the draw-th keypair the random number generator yields (distinct draws
\* yield distinct keypairs).
genkey(draw) == <<[elgamal_sk |-> draw], [elgamal_pk |-> draw], [elgamal_vk |-> draw]>>

\* elgamal::encrypt by a key server to the request's encapsulation key.
ElGamalEncrypt(enc_key, usk) == [to |-> enc_key, usk |-> usk]

\* elgamal::decrypt: the share comes out only under the matching secret.
elgamal_decrypt(enc_secret, encryption) ==
    IF encryption.to.elgamal_pk = enc_secret.elgamal_sk
    THEN encryption.usk
    ELSE GarbageKey(encryption.usk.id)

\* Ed25519: the keypair of a seed, and a signature, which names the public
\* key it verifies under and the message signed.
Ed25519KeyPair(seed) == [ed25519_sk |-> seed]
Ed25519Public(keypair) == [ed25519_pk |-> keypair.ed25519_sk]
Ed25519Sign(keypair, message) == [verifies_under |-> Ed25519Public(keypair), message |-> message]

\* base64::encode
base64_encode(bytes) == [base64 |-> bytes]

\* ibe::verify_user_secret_key(usk, id, public_key)
verify_user_secret_key(usk, id, public_key) ==
    usk.srv = public_key.pk /\ usk.id = id

\* seal_crypto::seal_encrypt: one envelope naming package, id, the servers
\* in the order supplied (with share indices) and the threshold; share i is
\* encrypted under the i-th public key.
seal_encrypt(package_id, id, key_servers, public_keys, threshold, data) ==
    IF Len(key_servers) # Len(public_keys)
    THEN Err("InvalidInput")
    ELSE Ok([version |-> 0,
             package_id |-> package_id,
             id |-> id,
             services |-> [i \in 1..Len(key_servers) |-> <<key_servers[i], i>>],
             threshold |-> threshold,
             encrypted_shares |-> [i \in 1..Len(key_servers) |-> [to |-> public_keys[i]]],
             ciphertext |-> [sealed |-> data]])

\* seal_crypto::seal_decrypt: the payload comes out when the user secret
\* keys open at least `threshold` of the envelope's shares; the key of
\* server s opens a share encrypted under the public key of s.
seal_decrypt(encrypted_object, usks, pks) ==
    LET full_id == create_full_id(encrypted_object.package_id, encrypted_object.id)
        opened == {i \in 1..Len(encrypted_object.services) :
                      LET s == encrypted_object.services[i][1] IN
                        /\ s \in DOMAIN usks
                        /\ usks[s] = UserSecretKey(s, full_id)
                        /\ encrypted_object.encrypted_shares[i].to = PublicKey(s)}
    IN  IF Cardinality(opened) >= encrypted_object.threshold
        THEN Ok(encrypted_object.ciphertext.sealed)
        ELSE Err("SealDecrypt")

(***************************************************************************)
(* crypto.rs: seal_decrypt_all_objects, the share verifier and combiner.   *)
(* seal_responses is a sequence of <<server_id, response>>, a response is  *)
(* [decryption_keys |-> sequence of [id, encrypted_key]], server_pk_map a  *)
(* function from server ids to public keys.                                *)
(***************************************************************************)
\* Variant: a share is taken as decrypted, verify_user_secret_key is skipped.
RECURSIVE verify_response_keys_unverified(_, _, _, _, _, _)
verify_response_keys_unverified(enc_secret, server_id, keys, public_key, cached_keys, k) ==
    IF k > Len(keys)
    THEN Ok(cached_keys)
    ELSE LET user_secret_key == elgamal_decrypt(enc_secret, keys[k].encrypted_key)
             entry == IF keys[k].id \in DOMAIN cached_keys
                      THEN cached_keys[keys[k].id] ELSE EmptyMap
         IN  verify_response_keys_unverified(
                 enc_secret, server_id, keys, public_key,
                 Put(cached_keys, keys[k].id, Put(entry, server_id, user_secret_key)),
                 k + 1)

\* Lines 169-178: decapsulate and verify every key of one response, and
\* file it under cached_keys[id][server_id]; a failed verification ends
\* the whole call.
RECURSIVE verify_response_keys(_, _, _, _, _, _)
verify_response_keys(enc_secret, server_id, keys, public_key, cached_keys, k) ==
    IF k > Len(keys)
    THEN Ok(cached_keys)
    ELSE LET decryption_key == keys[k]
             user_secret_key == elgamal_decrypt(enc_secret, decryption_key.encrypted_key)
         IN  IF ~verify_user_secret_key(user_secret_key, decryption_key.id, public_key)
             THEN Err("InvalidShare")
             ELSE LET entry == IF decryption_key.id \in DOMAIN cached_keys
                               THEN cached_keys[decryption_key.id]
                               ELSE EmptyMap
                  IN  verify_response_keys(
                          enc_secret, server_id, keys, public_key,
                          Put(cached_keys, decryption_key.id,
                              Put(entry, server_id, user_secret_key)),
                          k + 1)

\* Variant: the processed_servers check of lines 155-160 is left out.
RECURSIVE verify_responses_any_server(_, _, _, _, _, _)
verify_responses_any_server(enc_secret, seal_responses, server_pk_map, processed, cached_keys, i) ==
    IF i > Len(seal_responses)
    THEN Ok(cached_keys)
    ELSE LET server_id == seal_responses[i][1]
             seal_response == seal_responses[i][2]
         IN  IF server_id \notin DOMAIN server_pk_map
             THEN Err("NoPublicKey")
             ELSE LET r == verify_response_keys(
                               enc_secret, server_id, seal_response.decryption_keys,
                               server_pk_map[server_id], cached_keys, 1)
                  IN  IF ~r.ok
                      THEN r
                      ELSE verify_responses_any_server(
                               enc_secret, seal_responses, server_pk_map,
                               processed \cup {server_id}, r.val, i + 1)

\* Lines 154-179: the loop over the responses.
RECURSIVE verify_responses(_, _, _, _, _, _)
verify_responses(enc_secret, seal_responses, server_pk_map, processed_servers, cached_keys, i) ==
    IF i > Len(seal_responses)
    THEN Ok(cached_keys)
    ELSE LET server_id == seal_responses[i][1]
             seal_response == seal_responses[i][2]
         IN  IF server_id \in processed_servers
             THEN Err("DuplicateServer")
             ELSE IF server_id \notin DOMAIN server_pk_map
             THEN Err("NoPublicKey")
             ELSE LET r == verify_response_keys(
                               enc_secret, server_id, seal_response.decryption_keys,
                               server_pk_map[server_id], cached_keys, 1)
                  IN  IF ~r.ok
                      THEN r
                      ELSE verify_responses(
                               enc_secret, seal_responses, server_pk_map,
                               processed_servers \cup {server_id}, r.val, i + 1)

\* Variant: a service without a key is passed over.
RECURSIVE collect_object_keys_skipping(_, _, _, _, _, _)
collect_object_keys_skipping(services, keys_for_id, server_pk_map, usks, pks, j) ==
    IF j > Len(services)
    THEN Ok([usks |-> usks, pks |-> pks])
    ELSE LET server_id == services[j][1] IN
         IF server_id \notin DOMAIN keys_for_id
         THEN collect_object_keys_skipping(services, keys_for_id, server_pk_map,
                                           usks, pks, j + 1)
         ELSE IF server_id \notin DOMAIN server_pk_map
         THEN Err("NoPublicKey")
         ELSE collect_object_keys_skipping(
                  services, keys_for_id, server_pk_map,
                  Put(usks, server_id, keys_for_id[server_id]),
                  Append(pks, server_pk_map[server_id]),
                  j + 1)

\* Lines 191-209: the user secret keys and public keys of one envelope, one
\* per entry of its services; a service without a key ends the whole call.
RECURSIVE collect_object_keys(_, _, _, _, _, _)
collect_object_keys(services, keys_for_id, server_pk_map, usks, pks, j) ==
    IF j > Len(services)
    THEN Ok([usks |-> usks, pks |-> pks])
    ELSE LET server_id == services[j][1] IN
         IF server_id \notin DOMAIN keys_for_id
         THEN Err("MissingServerShare")
         ELSE IF server_id \notin DOMAIN server_pk_map
         THEN Err("NoPublicKey")
         ELSE collect_object_keys(
                  services, keys_for_id, server_pk_map,
                  Put(usks, server_id, keys_for_id[server_id]),
                  Append(pks, server_pk_map[server_id]),
                  j + 1)

\* Variant: the threshold is compared with the number of services entries,
\* a server named twice counted twice.
decrypt_object_counting_entries(encrypted_object, cached_keys, server_pk_map) ==
    LET full_id == create_full_id(encrypted_object.package_id, encrypted_object.id) IN
    IF full_id \notin DOMAIN cached_keys
    THEN Err("NoKeysForObject")
    ELSE LET c == collect_object_keys(encrypted_object.services, cached_keys[full_id],
                                      server_pk_map, EmptyMap, <<>>, 1)
         IN  IF ~c.ok
             THEN c
             ELSE IF Len(c.val.pks) < encrypted_object.threshold
             THEN Err("InsufficientKeysForObject")
             ELSE seal_decrypt(encrypted_object, c.val.usks, c.val.pks)

\* Lines 182-226: one envelope.
decrypt_object(encrypted_object, cached_keys, server_pk_map) ==
    LET full_id == create_full_id(encrypted_object.package_id, encrypted_object.id) IN
    IF full_id \notin DOMAIN cached_keys
    THEN Err("NoKeysForObject")
    ELSE LET c == collect_object_keys(encrypted_object.services, cached_keys[full_id],
                                      server_pk_map, EmptyMap, <<>>, 1)
         IN  IF ~c.ok
             THEN c
             ELSE IF Cardinality(DOMAIN c.val.usks) < encrypted_object.threshold
             THEN Err("InsufficientKeysForObject")
             ELSE seal_decrypt(encrypted_object, c.val.usks, c.val.pks)

\* Variant: each result goes to the front of decrypted_results.
RECURSIVE decrypt_objects_prepending(_, _, _, _, _)
decrypt_objects_prepending(encrypted_objects, cached_keys, server_pk_map, decrypted_results, n) ==
    IF n > Len(encrypted_objects)
    THEN Ok(decrypted_results)
    ELSE LET r == decrypt_object(encrypted_objects[n], cached_keys, server_pk_map) IN
         IF ~r.ok
         THEN r
         ELSE decrypt_objects_prepending(encrypted_objects, cached_keys, server_pk_map,
                                         <<r.val>> \o decrypted_results, n + 1)

\* Lines 181-228: the loop over the envelopes; results in input order.
RECURSIVE decrypt_objects(_, _, _, _, _)
decrypt_objects(encrypted_objects, cached_keys, server_pk_map, decrypted_results, n) ==
    IF n > Len(encrypted_objects)
    THEN Ok(decrypted_results)
    ELSE LET r == decrypt_object(encrypted_objects[n], cached_keys, server_pk_map) IN
         IF ~r.ok
         THEN r
         ELSE decrypt_objects(encrypted_objects, cached_keys, server_pk_map,
                              Append(decrypted_results, r.val), n + 1)

\* The calls of verify_user_secret_key that lines 169-178 make for one
\* response, added to `calls` as <<response number, key number>>; `.ok` is
\* FALSE when one failed and the call ended there.
RECURSIVE verify_calls_of_response(_, _, _, _, _, _)
verify_calls_of_response(enc_secret, i, keys, public_key, calls, k) ==
    IF k > Len(keys)
    THEN [ok |-> TRUE, calls |-> calls]
    ELSE LET user_secret_key == elgamal_decrypt(enc_secret, keys[k].encrypted_key)
         IN  IF ~verify_user_secret_key(user_secret_key, keys[k].id, public_key)
             THEN [ok |-> FALSE, calls |-> Append(calls, <<i, k>>)]
             ELSE verify_calls_of_response(enc_secret, i, keys, public_key,
                                           Append(calls, <<i, k>>), k + 1)

\* The same for the loop over the responses (154-179).
RECURSIVE verify_calls_of_responses(_, _, _, _, _, _)
verify_calls_of_responses(enc_secret, seal_responses, server_pk_map, processed_servers, calls, i) ==
    IF i > Len(seal_responses)
    THEN calls
    ELSE LET server_id == seal_responses[i][1]
         IN  IF server_id \in processed_servers \/ server_id \notin DOMAIN server_pk_map
             THEN calls
             ELSE LET r == verify_calls_of_response(
                               enc_secret, i, seal_responses[i][2].decryption_keys,
                               server_pk_map[server_id], calls, 1)
                  IN  IF ~r.ok
                      THEN r.calls
                      ELSE verify_calls_of_responses(
                               enc_secret, seal_responses, server_pk_map,
                               processed_servers \cup {server_id}, r.calls, i + 1)

\* Variant: the shares are verified again for every envelope.
RECURSIVE verify_calls_per_object(_, _, _, _)
verify_calls_per_object(enc_secret, seal_responses, encrypted_objects, server_pk_map) ==
    IF encrypted_objects = <<>> \/ seal_responses = <<>>
    THEN <<>>
    ELSE verify_calls_of_responses(enc_secret, seal_responses, server_pk_map, {}, <<>>, 1)
         \o verify_calls_per_object(enc_secret, seal_responses, Tail(encrypted_objects),
                                    server_pk_map)

\* The calls of verify_user_secret_key one call of seal_decrypt_all_objects
\* makes, in order: all of them in the loop over the responses (154-179),
\* none in the loop over the envelopes (181-226).
verify_calls(enc_secret, seal_responses, encrypted_objects, server_pk_map) ==
    IF encrypted_objects = <<>> \/ seal_responses = <<>>
    THEN <<>>
    ELSE verify_calls_of_responses(enc_secret, seal_responses, server_pk_map, {}, <<>>, 1)

\* Variant: no responses, like no envelopes, give the empty result.
seal_decrypt_all_objects_lenient(enc_secret, seal_responses, encrypted_objects, server_pk_map) ==
    IF encrypted_objects = <<>> \/ seal_responses = <<>>
    THEN Ok(<<>>)
    ELSE LET v == verify_responses(enc_secret, seal_responses, server_pk_map,
                                   {}, EmptyMap, 1)
         IN  IF ~v.ok
             THEN v
             ELSE decrypt_objects(encrypted_objects, v.val, server_pk_map, <<>>, 1)

seal_decrypt_all_objects(enc_secret, seal_responses, encrypted_objects, server_pk_map) ==
    IF encrypted_objects = <<>>
    THEN Ok(<<>>)
    ELSE IF seal_responses = <<>>
    THEN Err("NoSealResponses")
    ELSE LET v == verify_responses(enc_secret, seal_responses, server_pk_map,
                                   {}, EmptyMap, 1)
         IN  IF ~v.ok
             THEN v
             ELSE decrypt_objects(encrypted_objects, v.val, server_pk_map, <<>>, 1)

(***************************************************************************)
(* State.                                                                  *)
(***************************************************************************)
VARIABLES
    cache_kind,             \* "NoCache" (SealClient) or "HashMap" (SealClientLeakingCache)
    key_server_info_cache,  \* BaseSealClient.key_server_info_cache: id -> KeyServerInfo
    derived_key_cache,      \* BaseSealClient.derived_key_cache: DerivedKeyCacheKey -> DerivedKeys
    objects,                \* decrypt's input: envelopes (handed in encoded) or undecodable bytes
    pc,                     \* "idle", "fetch" (inside fetch_derived_keys) or "done"
    call,                   \* the locals of the running decrypt call, or None
    tasks,                  \* seal_responses_futures: one [server, st, resp] per server
    fetched,                \* what fetch_derived_keys returned, or None
    outcome,                \* what the last encrypt or decrypt call returned, or None
    seal_args,              \* the arguments of a direct seal_decrypt_all_objects call
    seal_result,            \* what that call returned, or None
    store,                  \* the map of a cache used directly: key -> value
    lock,                   \* the holder of that map's mutex, or 0
    callers,                \* the try_get_with calls on it, one per caller
    chain,                  \* the key text each key server's on-chain record holds
    join_kind,              \* the join_all being followed: "none", "directory", "fetch"
    subs,                   \* its sub-requests, in the order they were pushed
    order,                  \* the indices of the sub-requests, in completion order
    join_result,            \* what the call around the join_all returned, or None
    refetch,                \* TRUE once fetch_derived_keys has been called a second time
    posted,                 \* the (request, server, threshold) of every POST answered
    session,                \* a SessionKey::new call: its input, position and result
    rng,                    \* the number of keypairs genkey has drawn from the generator
    requests                \* the get_fetch_key_request calls made on their own, in order

client_vars == <<cache_kind, key_server_info_cache, derived_key_cache,
                 objects, pc, call, tasks, fetched, outcome>>
combiner_vars == <<seal_args, seal_result>>
cache_vars == <<store, lock, callers>>
join_vars == <<join_kind, subs, order, join_result, refetch, posted>>
request_vars == <<rng, requests>>
vars == <<client_vars, combiner_vars, cache_vars, chain, join_vars, session, request_vars>>

(***************************************************************************)
(* cache.rs: what try_get_with finds under a key.  NoCache holds nothing;  *)
(* the map-backed cache returns a clone of the stored value.               *)
(***************************************************************************)
cache_get(kind, cache, key) ==
    IF kind = "HashMap" /\ key \in DOMAIN cache THEN Ok(cache[key]) ELSE Err("Miss")

\* Variant: the computed value is returned but never stored.
cache_insert_forgets(kind, cache, key, value) == cache

\* Variant: the map holds one entry, the last one stored.
cache_insert_evicting(kind, cache, key, value) == IF kind = "HashMap" THEN Put(EmptyMap, key, value) ELSE cache

cache_insert(kind, cache, key, value) ==
    IF kind = "HashMap" THEN Put(cache, key, value) ELSE cache

(***************************************************************************)
(* The key-server directory.                                               *)
(***************************************************************************)
PublicKeyLen == 96

\* The key texts a record may hold: the hex text of the 96-byte encoding of
\* the server's G2 public key, or a text that is not hex, that decodes to
\* 95 bytes, or whose 96 bytes encode no group element.
KeyTexts == {"good", "nothex", "short", "badpoint"}

KeyText(kind, id) ==
    [hex |-> kind # "nothex",
     len |-> IF kind = "short" THEN PublicKeyLen - 1 ELSE PublicKeyLen,
     element |-> kind # "badpoint",
     point |-> id]

\* The record the chain holds for a key server.
KeyServerInfo(id) ==
    [object_id |-> id, name |-> id, url |-> id, public_key |-> KeyText(chain[id], id)]

KeyServerInfoCacheKey(id) == [id |-> id]

\* Variant: the threshold is not part of the key.
DerivedKeyCacheKey_without_threshold(request, server_id, threshold) == [request |-> request, server_id |-> server_id]

\* cache_key.rs 14-29
DerivedKeyCacheKey(request, server_id, threshold) ==
    [request |-> request, server_id |-> server_id, threshold |-> threshold]

\* Variant: the bytes of the record are trusted to be a key.
decode_public_key_unchecked(info) == Ok(PublicKey(info.public_key.point))

\* base_client.rs 403-416
decode_public_key(info) ==
    IF ~info.public_key.hex
    THEN Err("HEXDeserialization")
    ELSE IF info.public_key.len # PublicKeyLen
    THEN [ok |-> FALSE,
          err |-> [kind |-> "InvalidPublicKey", public_key |-> info.public_key,
                   reason |-> "Invalid length."]]
    ELSE IF ~info.public_key.element
    THEN Err("FastCrypto")
    ELSE Ok(PublicKey(info.public_key.point))

\* Variant: the errors are left out, the values of the rest are returned.
RECURSIVE collect_results_lenient(_, _, _)
collect_results_lenient(results, acc, i) ==
    IF i > Len(results)
    THEN Ok(acc)
    ELSE collect_results_lenient(
             results, IF results[i].ok THEN Append(acc, results[i].val) ELSE acc, i + 1)

\* The first error of a sequence of results, or the sequence of their
\* values: `.into_iter().collect::<Result<_, _>>()`.
RECURSIVE collect_results(_, _, _)
collect_results(results, acc, i) ==
    IF i > Len(results)
    THEN Ok(acc)
    ELSE IF ~results[i].ok
    THEN results[i]
    ELSE collect_results(results, Append(acc, results[i].val), i + 1)

\* base_client.rs 311-337: one cache-wrapped lookup per id, all of them
\* run to completion (join_all); `down` are the ids whose chain lookup
\* fails.  Gives the result and the cache afterwards.
RECURSIVE key_server_info_lookups(_, _, _, _, _, _)
key_server_info_lookups(kind, key_server_ids, down, cache, results, i) ==
    IF i > Len(key_server_ids)
    THEN [results |-> results, cache |-> cache]
    ELSE LET id == key_server_ids[i]
             hit == cache_get(kind, cache, KeyServerInfoCacheKey(id))
         IN  IF hit.ok
             THEN key_server_info_lookups(kind, key_server_ids, down, cache,
                                          Append(results, hit), i + 1)
             ELSE IF id \in down
             THEN key_server_info_lookups(kind, key_server_ids, down, cache,
                                          Append(results, Err("SuiClient")), i + 1)
             ELSE key_server_info_lookups(
                      kind, key_server_ids, down,
                      cache_insert(kind, cache, KeyServerInfoCacheKey(id), KeyServerInfo(id)),
                      Append(results, Ok(KeyServerInfo(id))), i + 1)

fetch_key_server_info(kind, key_server_ids, down, cache) ==
    LET l == key_server_info_lookups(kind, key_server_ids, down, cache, <<>>, 1)
    IN  [result |-> collect_results(l.results, <<>>, 1), cache |-> l.cache]

(***************************************************************************)
(* base_client.rs 134-178: encrypt_multiple_bytes.                         *)
(***************************************************************************)
\* Variant: each envelope goes to the front of results.
RECURSIVE encrypt_each_prepending(_, _, _, _, _, _, _, _)
encrypt_each_prepending(package_id, id, key_servers, public_keys, threshold, data, results, i) ==
    IF i > Len(data)
    THEN Ok(results)
    ELSE LET r == seal_encrypt(package_id, id, key_servers, public_keys, threshold, data[i])
         IN  IF ~r.ok
             THEN r
             ELSE encrypt_each_prepending(package_id, id, key_servers, public_keys,
                                          threshold, data, <<r.val>> \o results, i + 1)

RECURSIVE encrypt_each(_, _, _, _, _, _, _, _)
encrypt_each(package_id, id, key_servers, public_keys, threshold, data, results, i) ==
    IF i > Len(data)
    THEN Ok(results)
    ELSE LET r == seal_encrypt(package_id, id, key_servers, public_keys, threshold, data[i])
         IN  IF ~r.ok
             THEN r
             ELSE encrypt_each(package_id, id, key_servers, public_keys, threshold, data,
                               Append(results, r.val), i + 1)

encrypt_multiple_bytes(kind, cache, down, package_id, id, threshold, key_servers, data) ==
    LET key_server_info == fetch_key_server_info(kind, key_servers, down, cache)
    IN  IF ~key_server_info.result.ok
        THEN [result |-> key_server_info.result, cache |-> key_server_info.cache]
        ELSE LET infos == key_server_info.result.val
                 public_keys_g2 ==
                     collect_results([i \in 1..Len(infos) |-> decode_public_key(infos[i])],
                                     <<>>, 1)
             IN  IF ~public_keys_g2.ok
                 THEN [result |-> public_keys_g2, cache |-> key_server_info.cache]
                 ELSE [result |-> encrypt_each(package_id, id, key_servers,
                                               public_keys_g2.val, threshold, data, <<>>, 1),
                       cache |-> key_server_info.cache]

(***************************************************************************)
(* bcs encoding of an envelope, as the callers of decrypt hand it in.      *)
(***************************************************************************)
bcs_to_bytes(value) == [bcs |-> value]

bcs_from_bytes(bytes) ==
    IF DOMAIN bytes = {"bcs"} THEN Ok(bytes.bcs) ELSE Err("BCS")

(***************************************************************************)
(* session_key.rs: the session key as SessionKey::new leaves it (57-91),   *)
(* and get_fetch_key_request (102-161).  `draw` is the number of the       *)
(* keypair genkey takes from the random number generator.                  *)
(***************************************************************************)
\* Lines 14-15
MIN_TTL_MIN == 1
MAX_TTL_MAX == 30

\* signed_message (164-179): the text the user signs; the time in seconds.
signed_message(package_name, vk, creation_time, ttl_min) ==
    [package |-> package_name, ttl_min |-> ttl_min, from |-> creation_time \div 1000,
     session_key |-> vk]

\* Lines 57-91: the session key made for `user` at time now_ms, the
\* signature having come back at time signed_ms.
new_session_key(package_id, ttl_min, user, seed, now_ms, signed_ms) ==
    LET session_key == Ed25519KeyPair(seed)
        message_to_sign == signed_message(package_id, Ed25519Public(session_key),
                                          now_ms, ttl_min)
    IN  [address |-> [address |-> user],
         package_id |-> package_id,
         creation_time_ms |-> signed_ms,
         ttl_min |-> ttl_min,
         session_key |-> session_key,
         personal_message_signer_address_and_public_key |->
             <<[address |-> user], Ed25519Public(Ed25519KeyPair(user))>>,
         personal_message_signature |->
             Ed25519Sign(Ed25519KeyPair(user), bcs_to_bytes(message_to_sign))]

\* Lines 140-161
get_certificate(session_key) ==
    [user |-> session_key.personal_message_signer_address_and_public_key[1],
     session_vk |-> Ed25519Public(session_key.session_key),
     creation_time |-> session_key.creation_time_ms,
     ttl_min |-> session_key.ttl_min,
     signature |-> [signature |-> session_key.personal_message_signature,
                    public_key |-> session_key.personal_message_signer_address_and_public_key[2]],
     mvr_name |-> None]

\* Variant: the secret key is serialized where the public key belongs.
get_signed_request_with_secret(session_key, approve_transaction_data, draw) ==
    LET keys == genkey(draw)
        req == [ptb |-> approve_transaction_data,
                enc_key |-> bcs_to_bytes(keys[1]),
                enc_verification_key |-> bcs_to_bytes(keys[3])]
    IN  <<bcs_to_bytes(req), keys[1], keys[1], keys[3]>>

\* Variant: the keypair is drawn once and used for every request.
get_signed_request_reusing_keypair(session_key, approve_transaction_data, draw) ==
    LET keys == genkey(1)
        req == [ptb |-> approve_transaction_data,
                enc_key |-> bcs_to_bytes(keys[2]),
                enc_verification_key |-> bcs_to_bytes(keys[3])]
    IN  <<bcs_to_bytes(req), keys[1], keys[2], keys[3]>>

\* Lines 125-138: <<signed_request, enc_secret, enc_key, enc_verification_key>>
get_signed_request(session_key, approve_transaction_data, draw) ==
    LET keys == genkey(draw)
        req == [ptb |-> approve_transaction_data,
                enc_key |-> bcs_to_bytes(keys[2]),
                enc_verification_key |-> bcs_to_bytes(keys[3])]
    IN  <<bcs_to_bytes(req), keys[1], keys[2], keys[3]>>

\* Variant: the bytes signed come from a second get_signed_request call,
\* which draws its own keypair.
get_fetch_key_request_signing_other_keys(session_key, approve_transaction_data, draw) ==
    LET signed == get_signed_request(session_key, approve_transaction_data, draw)
        other == get_signed_request(session_key, approve_transaction_data, draw + 1)
    IN  [request |-> [ptb |-> base64_encode(approve_transaction_data),
                      enc_key |-> signed[3],
                      enc_verification_key |-> signed[4],
                      request_signature |-> Ed25519Sign(session_key.session_key, other[1]),
                      certificate |-> get_certificate(session_key)],
         enc_secret |-> signed[2]]

\* Lines 102-123
get_fetch_key_request(session_key, approve_transaction_data, draw) ==
    LET signed == get_signed_request(session_key, approve_transaction_data, draw)
    IN  [request |-> [ptb |-> base64_encode(approve_transaction_data),
                      enc_key |-> signed[3],
                      enc_verification_key |-> signed[4],
                      request_signature |-> Ed25519Sign(session_key.session_key, signed[1]),
                      certificate |-> get_certificate(session_key)],
         enc_secret |-> signed[2]]

\* crypto.rs 92-113: the body of the POST.
to_json_string(request) ==
    [json |->
        [ptb |-> request.ptb,
         enc_key |-> request.enc_key,
         enc_verification_key |-> request.enc_verification_key,
         request_signature |-> request.request_signature,
         certificate |->
             [user |-> request.certificate.user,
              session_vk |-> request.certificate.session_vk,
              creation_time |-> request.certificate.creation_time,
              ttl_min |-> request.certificate.ttl_min,
              signature |-> base64_encode(request.certificate.signature),
              mvr_name |-> request.certificate.mvr_name]]]

\* The session key the caller of decrypt passes in.
ClientSession == new_session_key(PackageId, MAX_TTL_MAX, "user", "session", 0, 0)

(***************************************************************************)
(* The key server's side of POST {url}/v1/fetch_key: one key per id the    *)
(* approval transaction names, derived with the server's master key (or a  *)
(* share that does not verify) and encrypted to the request's enc_key.     *)
(***************************************************************************)
FetchKeyResponse(server, request, valid) ==
    LET ptb == request.ptb.base64.bcs
        full_id == create_full_id(ptb.package_id, ptb.id)
        usk == IF valid THEN UserSecretKey(server, full_id) ELSE GarbageKey(full_id)
    IN  [decryption_keys |->
            <<[id |-> full_id, encrypted_key |-> ElGamalEncrypt(request.enc_key, usk)]>>]

\* What makes the future of one server fail: a transport error (359-362),
\* a non-2xx status (364-370), a 2xx body that is no FetchKeyResponse (372).
FailureKinds == {"Transport", "HttpStatus", "BadBody"}

(***************************************************************************)
(* base_client.rs 385-400: the end of fetch_derived_keys, once join_all    *)
(* has every future's result.                                              *)
(***************************************************************************)
RECURSIVE filter_ok(_, _, _)
filter_ok(ts, acc, i) ==
    IF i > Len(ts)
    THEN acc
    ELSE filter_ok(ts, IF ts[i].st = "ok" THEN Append(acc, ts[i].resp) ELSE acc, i + 1)

seal_responses_of(ts) == filter_ok(ts, <<>>, 1)

\* Variant: the threshold is never checked.
fetch_derived_keys_result_unchecked(ts, threshold) == Ok(seal_responses_of(ts))

\* Variant: `<=` for `<`, one response more than the threshold is required.
fetch_derived_keys_result_strict(ts, threshold) ==
    LET seal_responses == seal_responses_of(ts)
        seal_responses_len == Len(seal_responses)
    IN  IF seal_responses_len <= threshold
        THEN [ok |-> FALSE,
              err |-> [kind |-> "InsufficientKeys",
                       received |-> seal_responses_len,
                       threshold |-> threshold]]
        ELSE Ok(seal_responses)

fetch_derived_keys_result(ts, threshold) ==
    LET seal_responses == seal_responses_of(ts)
        seal_responses_len == Len(seal_responses)
    IN  IF seal_responses_len < threshold
        THEN [ok |-> FALSE,
              err |-> [kind |-> "InsufficientKeys",
                       received |-> seal_responses_len,
                       threshold |-> threshold]]
        ELSE Ok(seal_responses)

\* Variant: ready as soon as `threshold` futures ended with a response.
all_settled_at_threshold(ts) ==
    Cardinality({i \in 1..Len(ts) : ts[i].st = "ok"}) >= call.threshold

\* Variant: ready as soon as one future ended in an error.
all_settled_or_failed(ts) ==
    \/ \A i \in 1..Len(ts) : ts[i].st \in {"ok", "err"}
    \/ \E i \in 1..Len(ts) : ts[i].st = "err"

\* join_all is ready when every future it holds is.
all_settled(ts) == \A i \in 1..Len(ts) : ts[i].st \in {"ok", "err"}

\* Byte strings that are the encoding of no envelope.
UndecodableBytes == {[junk |-> <<0, 1, 2, 3>>]}

\* The byte string the caller of decrypt hands in for an element of
\* `objects`: the encoding of the envelope, or the bytes themselves.
as_bytes(object) == IF object \in UndecodableBytes THEN object ELSE bcs_to_bytes(object)

(***************************************************************************)
(* The client (BaseSealClient): one encrypt_bytes call, then one decrypt   *)
(* call over the envelope it returned.  The futures of fetch_derived_keys  *)
(* settle one by one, in any order.                                        *)
(***************************************************************************)
ClientInit ==
    /\ cache_kind \in {"NoCache", "HashMap"}
    /\ key_server_info_cache = EmptyMap
    /\ derived_key_cache = EmptyMap
    /\ objects = <<>>
    /\ pc = "idle"
    /\ call = None
    /\ tasks = <<>>
    /\ fetched = None
    /\ outcome = None

\* No direct call of the combiner, no direct use of a cache.
CombinerIdle == seal_args = None /\ seal_result = None
CacheIdle == store = EmptyMap /\ lock = 0 /\ callers = <<>>

\* Every key server's record holds a well-formed key.
ChainGood == chain = [s \in Servers |-> "good"]

\* No join_all followed on its own, no SessionKey::new call.
JoinIdle ==
    /\ join_kind = "none"
    /\ subs = <<>>
    /\ order = <<>>
    /\ join_result = None
    /\ refetch = FALSE
    /\ posted = {}
SessionIdle == session = None
RequestsIdle == rng = 0 /\ requests = <<>>

Init ==
    /\ ClientInit
    /\ CombinerIdle
    /\ CacheIdle
    /\ ChainGood
    /\ JoinIdle
    /\ SessionIdle
    /\ RequestsIdle

\* encrypt_bytes (112-132): encrypt_multiple_bytes with the one payload.
encrypt_bytes(id, threshold, key_servers, data, down) ==
    /\ pc = "idle"
    /\ objects = <<>>
    /\ LET r == encrypt_multiple_bytes(cache_kind, key_server_info_cache, down,
                                       PackageId, id, threshold, key_servers, <<data>>)
       IN  /\ key_server_info_cache' = r.cache
           /\ outcome' = IF r.result.ok THEN Ok(r.result.val[1]) ELSE r.result
           /\ IF r.result.ok
              THEN /\ objects' = r.result.val
                   /\ pc' = "idle"
              ELSE /\ objects' = objects
                   /\ pc' = "done"
    /\ UNCHANGED <<combiner_vars, cache_vars, join_vars, session, request_vars, chain, cache_kind, derived_key_cache, call, tasks, fetched>>

\* Variant: the servers and the threshold are those of the last envelope.
resolve_and_request_for_last(encrypted_objects, ptb_id, down) ==
    LET first_encrypted_object == encrypted_objects[Len(encrypted_objects)]
        service_ids == [i \in 1..Len(first_encrypted_object.services) |->
                           first_encrypted_object.services[i][1]]
        key_server_info == fetch_key_server_info(cache_kind, service_ids, down,
                                                 key_server_info_cache)
        infos == key_server_info.result.val
        decoded_keys == collect_results(
                            [i \in 1..Len(infos) |-> decode_public_key(infos[i])],
                            <<>>, 1)
        servers_public_keys_map ==
            [s \in {infos[i].object_id : i \in 1..Len(infos)} |->
                decoded_keys.val[CHOOSE i \in 1..Len(infos) : infos[i].object_id = s]]
        req == get_fetch_key_request(
                   ClientSession, bcs_to_bytes([package_id |-> PackageId, id |-> ptb_id]),
                   rng + 1)
    IN  IF ~key_server_info.result.ok
        THEN /\ outcome' = key_server_info.result
             /\ pc' = "done"
             /\ key_server_info_cache' = key_server_info.cache
             /\ UNCHANGED <<call, tasks, rng>>
        ELSE IF ~decoded_keys.ok
        THEN /\ outcome' = decoded_keys
             /\ pc' = "done"
             /\ key_server_info_cache' = key_server_info.cache
             /\ UNCHANGED <<call, tasks, rng>>
        ELSE /\ outcome' = None
             /\ pc' = "fetch"
             /\ rng' = rng + 1
             /\ key_server_info_cache' = key_server_info.cache
             /\ call' = [request |-> req.request,
                         enc_secret |-> req.enc_secret,
                         threshold |-> first_encrypted_object.threshold,
                         servers_public_keys_map |-> servers_public_keys_map]
             /\ tasks' = [i \in 1..Len(infos) |->
                             [server |-> infos[i].object_id, st |-> "new",
                              resp |-> NoResponse]]

\* decrypt_multiple_objects_bytes, lines 270-300, over the decoded
\* envelopes: the directory lookup, the public keys, the signed request, up
\* to the point where fetch_derived_keys has built its futures (345-383).
resolve_and_request(encrypted_objects, ptb_id, down) ==
    LET first_encrypted_object == encrypted_objects[1]
        service_ids == [i \in 1..Len(first_encrypted_object.services) |->
                           first_encrypted_object.services[i][1]]
        key_server_info == fetch_key_server_info(cache_kind, service_ids, down,
                                                 key_server_info_cache)
        infos == key_server_info.result.val
        decoded_keys == collect_results(
                            [i \in 1..Len(infos) |-> decode_public_key(infos[i])],
                            <<>>, 1)
        servers_public_keys_map ==
            [s \in {infos[i].object_id : i \in 1..Len(infos)} |->
                decoded_keys.val[CHOOSE i \in 1..Len(infos) : infos[i].object_id = s]]
        req == get_fetch_key_request(
                   ClientSession, bcs_to_bytes([package_id |-> PackageId, id |-> ptb_id]),
                   rng + 1)
    IN  IF ~key_server_info.result.ok
        THEN /\ outcome' = key_server_info.result
             /\ pc' = "done"
             /\ key_server_info_cache' = key_server_info.cache
             /\ UNCHANGED <<call, tasks, rng>>
        ELSE IF ~decoded_keys.ok
        THEN /\ outcome' = decoded_keys
             /\ pc' = "done"
             /\ key_server_info_cache' = key_server_info.cache
             /\ UNCHANGED <<call, tasks, rng>>
        ELSE /\ outcome' = None
             /\ pc' = "fetch"
             /\ rng' = rng + 1
             /\ key_server_info_cache' = key_server_info.cache
             /\ call' = [request |-> req.request,
                         enc_secret |-> req.enc_secret,
                         threshold |-> first_encrypted_object.threshold,
                         servers_public_keys_map |-> servers_public_keys_map]
             /\ tasks' = [i \in 1..Len(infos) |->
                             [server |-> infos[i].object_id, st |-> "new",
                              resp |-> NoResponse]]

\* Variant: only the first byte string is decoded before the directory is
\* asked; the others are decoded after the lookup.
decrypt_call_decoding_lazily(ptb_id, down) ==
    /\ pc = "idle"
    /\ LET encrypted_objects_data == [i \in 1..Len(objects) |-> as_bytes(objects[i])]
           results == [i \in 1..Len(encrypted_objects_data) |->
                          bcs_from_bytes(encrypted_objects_data[i])]
           decoded == collect_results(results, <<>>, 1)
       IN  IF encrypted_objects_data = <<>>
           THEN /\ outcome' = Ok(<<>>)
                /\ pc' = "done"
                /\ UNCHANGED <<key_server_info_cache, call, tasks, rng>>
           ELSE IF ~results[1].ok
           THEN /\ outcome' = decoded
                /\ pc' = "done"
                /\ UNCHANGED <<key_server_info_cache, call, tasks, rng>>
           ELSE IF ~decoded.ok
           THEN LET services == results[1].val.services
                    key_server_info ==
                        fetch_key_server_info(
                            cache_kind, [i \in 1..Len(services) |-> services[i][1]],
                            down, key_server_info_cache)
                IN  /\ outcome' = IF key_server_info.result.ok
                                  THEN decoded
                                  ELSE key_server_info.result
                    /\ pc' = "done"
                    /\ key_server_info_cache' = key_server_info.cache
                    /\ UNCHANGED <<call, tasks, rng>>
           ELSE resolve_and_request(decoded.val, ptb_id, down)
    /\ UNCHANGED <<combiner_vars, cache_vars, join_vars, session, requests, chain, cache_kind, derived_key_cache, objects, fetched>>

\* Variant: the keypair of the request is drawn before the list is looked at.
decrypt_call_drawing_first(ptb_id, down) ==
    /\ pc = "idle"
    /\ LET encrypted_objects_data == [i \in 1..Len(objects) |-> as_bytes(objects[i])]
           decoded == collect_results(
                          [i \in 1..Len(encrypted_objects_data) |->
                              bcs_from_bytes(encrypted_objects_data[i])], <<>>, 1)
       IN  IF encrypted_objects_data = <<>>
           THEN /\ outcome' = Ok(<<>>)
                /\ pc' = "done"
                /\ rng' = rng + 1
                /\ UNCHANGED <<key_server_info_cache, call, tasks>>
           ELSE IF ~decoded.ok
           THEN /\ outcome' = decoded
                /\ pc' = "done"
                /\ UNCHANGED <<key_server_info_cache, call, tasks, rng>>
           ELSE resolve_and_request(decoded.val, ptb_id, down)
    /\ UNCHANGED <<combiner_vars, cache_vars, join_vars, session, requests, chain, cache_kind, derived_key_cache, objects, fetched>>

\* decrypt_multiple_objects_bytes, lines 252-300: the empty list (261-263),
\* the decoding of every byte string (265-268), then the rest.
decrypt_call(ptb_id, down) ==
    /\ pc = "idle"
    /\ LET encrypted_objects_data == [i \in 1..Len(objects) |-> as_bytes(objects[i])]
           decoded == collect_results(
                          [i \in 1..Len(encrypted_objects_data) |->
                              bcs_from_bytes(encrypted_objects_data[i])], <<>>, 1)
       IN  IF encrypted_objects_data = <<>>
           THEN /\ outcome' = Ok(<<>>)
                /\ pc' = "done"
                /\ UNCHANGED <<key_server_info_cache, call, tasks, rng>>
           ELSE IF ~decoded.ok
           THEN /\ outcome' = decoded
                /\ pc' = "done"
                /\ UNCHANGED <<key_server_info_cache, call, tasks, rng>>
           ELSE resolve_and_request(decoded.val, ptb_id, down)
    /\ UNCHANGED <<combiner_vars, cache_vars, join_vars, session, requests, chain, cache_kind, derived_key_cache, objects, fetched>>

\* The first poll of future i (cache.rs 108-116): the cached value, or the
\* POST goes out.  join_all polls its futures in order, all of them before
\* the answer to any POST is looked at.
poll_future(i) ==
    /\ pc = "fetch"
    /\ tasks[i].st = "new"
    /\ \A j \in 1..(i - 1) : tasks[j].st # "new"
    /\ LET cache_key == DerivedKeyCacheKey(call.request, tasks[i].server, call.threshold)
           hit == cache_get(cache_kind, derived_key_cache, cache_key)
       IN  tasks' = [tasks EXCEPT ![i] =
                        IF hit.ok
                        THEN [@ EXCEPT !.st = "ok", !.resp = hit.val]
                        ELSE [@ EXCEPT !.st = "inflight"]]
    /\ UNCHANGED <<combiner_vars, cache_vars, join_vars, session, request_vars, chain, cache_kind, key_server_info_cache, derived_key_cache,
                   objects, pc, call, fetched, outcome>>

\* Server i answers 2xx with a FetchKeyResponse (372-374); the cache keeps
\* the value (cache.rs 119-125).
post_succeeds(i, valid) ==
    /\ pc = "fetch"
    /\ tasks[i].st = "inflight"
    /\ \A j \in 1..Len(tasks) : tasks[j].st # "new"
    /\ LET server == tasks[i].server
           value == <<server, FetchKeyResponse(server, call.request, valid)>>
           cache_key == DerivedKeyCacheKey(call.request, server, call.threshold)
       IN  /\ tasks' = [tasks EXCEPT ![i] = [@ EXCEPT !.st = "ok", !.resp = value]]
           /\ derived_key_cache' = cache_insert(cache_kind, derived_key_cache, cache_key, value)
    /\ UNCHANGED <<combiner_vars, cache_vars, join_vars, session, request_vars, chain, cache_kind, key_server_info_cache, objects, pc, call,
                   fetched, outcome>>

\* Variant: the error of one future ends the whole call at once.
post_fails_abort(i, why) ==
    /\ pc = "fetch"
    /\ tasks[i].st = "inflight"
    /\ \A j \in 1..Len(tasks) : tasks[j].st # "new"
    /\ why \in FailureKinds
    /\ tasks' = [tasks EXCEPT ![i] = [@ EXCEPT !.st = "err"]]
    /\ pc' = "done"
    /\ outcome' = Err(why)
    /\ UNCHANGED <<combiner_vars, cache_vars, join_vars, session, request_vars, chain, cache_kind, key_server_info_cache, derived_key_cache,
                   objects, call, fetched>>

\* The future of server i ends in an error (cache.rs 127).
post_fails(i, why) ==
    /\ pc = "fetch"
    /\ tasks[i].st = "inflight"
    /\ \A j \in 1..Len(tasks) : tasks[j].st # "new"
    /\ why \in FailureKinds
    /\ tasks' = [tasks EXCEPT ![i] = [@ EXCEPT !.st = "err"]]
    /\ UNCHANGED <<combiner_vars, cache_vars, join_vars, session, request_vars, chain, cache_kind, key_server_info_cache, derived_key_cache,
                   objects, pc, call, fetched, outcome>>

\* join_all returns (385-386); fetch_derived_keys ends (388-400) and
\* decrypt_multiple_objects_bytes goes on to the combiner (297-308).
Join ==
    /\ pc = "fetch"
    /\ all_settled(tasks)
    /\ LET r == fetch_derived_keys_result(tasks, call.threshold)
       IN  /\ fetched' = r
           /\ outcome' = IF r.ok
                         THEN seal_decrypt_all_objects(call.enc_secret, r.val, objects,
                                                       call.servers_public_keys_map)
                         ELSE r
    /\ pc' = "done"
    /\ UNCHANGED <<combiner_vars, cache_vars, join_vars, session, request_vars, chain, cache_kind, key_server_info_cache, derived_key_cache,
                   objects, call, tasks>>

\* The actions: each is one step of the client or of a key server.
Encrypt ==
    /\ pc = "idle"
    /\ objects = <<>>
    /\ \E threshold \in Thresholds, key_servers \in ServerLists, data \in Payloads :
          \E down \in SUBSET Range(key_servers) :
              encrypt_bytes(EncryptId, threshold, key_servers, data, down)

StartDecrypt ==
    /\ pc = "idle"
    /\ \E ptb_id \in Ids, down \in SUBSET Servers : decrypt_call(ptb_id, down)

Dispatch == \E i \in 1..Len(tasks) : poll_future(i)

ServerAnswers == \E i \in 1..Len(tasks), valid \in BOOLEAN : post_succeeds(i, valid)

ServerFails == \E i \in 1..Len(tasks), why \in FailureKinds : post_fails(i, why)

Next ==
    \/ Encrypt
    \/ StartDecrypt
    \/ Dispatch
    \/ ServerAnswers
    \/ ServerFails
    \/ Join

Spec == Init /\ [][Next]_vars

\* The executor keeps polling the call: a future that is due its first poll
\* gets it, and join_all returns once it is ready.  Nothing makes a key
\* server answer: the POST has no timeout (base_client.rs 351-362).
FairSpec == Spec /\ WF_vars(Dispatch) /\ WF_vars(Join)

(***************************************************************************)
(* crypto.rs 136-229 called directly: seal_decrypt_all_objects over any    *)
(* list of responses and any list of envelopes.                            *)
(***************************************************************************)
\* The session's encapsulation secret and the request it signs for item id.
EncSecret == genkey(1)[1]
RequestFor(id) ==
    get_fetch_key_request(ClientSession, bcs_to_bytes([package_id |-> PackageId, id |-> id]),
                          1).request

\* What a response list may hold: for each server, its keys for item "a",
\* valid or not, or its valid keys for item "b".
ResponseChoices ==
    {<<s, FetchKeyResponse(s, RequestFor(c[1]), c[2])>> :
        s \in Servers, c \in {<<"a", TRUE>>, <<"a", FALSE>>, <<"b", TRUE>>}}

\* Envelopes as seal_encrypt makes them: two of the same id and server set
\* with different payloads, and one of another id.
EnvelopeOf(id, key_servers, threshold, data) ==
    seal_encrypt(PackageId, id, key_servers,
                 [i \in 1..Len(key_servers) |-> PublicKey(key_servers[i])],
                 threshold, data).val

EnvelopeChoices ==
    { EnvelopeOf("a", <<1, 2>>, 1, <<>>),
      EnvelopeOf("a", <<1, 2>>, 2, <<0, 1, 2, 3>>),
      EnvelopeOf("b", <<2>>, 1, <<0, 1, 2, 3>>) }

\* What the combiner may be handed: those, and an envelope that names one
\* server for both of its shares and asks for two.
CombinerEnvelopes ==
    EnvelopeChoices \cup {EnvelopeOf("a", <<1, 1>>, 2, <<0, 1, 2, 3>>)}

InitCombiner ==
    /\ ClientInit
    /\ cache_kind = "NoCache"
    /\ CacheIdle
    /\ ChainGood
    /\ JoinIdle
    /\ RequestsIdle
    /\ SessionIdle
    /\ seal_args \in [seal_responses : ListsUpTo(ResponseChoices, MaxResponses),
                       encrypted_objects : ListsUpTo(CombinerEnvelopes, MaxItems),
                       server_pk_map : {[s \in Servers |-> PublicKey(s)]}]
    /\ seal_result = None

Combine ==
    /\ seal_args # None
    /\ seal_result = None
    /\ seal_result' = seal_decrypt_all_objects(EncSecret, seal_args.seal_responses,
                                               seal_args.encrypted_objects,
                                               seal_args.server_pk_map)
    /\ UNCHANGED <<client_vars, cache_vars, join_vars, session, request_vars, chain, seal_args>>

SpecCombiner == InitCombiner /\ [][Combine]_vars

(***************************************************************************)
(* cache.rs called directly: concurrent try_get_with calls on one cache.   *)
(* Caller c computes the value <<key, c>>, or its compute function fails.  *)
(***************************************************************************)
Callers == 1..NumCallers
CacheKeys == {"k1", "k2"}

InitCache ==
    /\ ClientInit
    /\ CombinerIdle
    /\ ChainGood
    /\ JoinIdle
    /\ RequestsIdle
    /\ SessionIdle
    /\ store = EmptyMap
    /\ lock = 0
    /\ callers \in [Callers -> [st : {"idle"}, key : CacheKeys, computes : {0},
                                 value : {<<>>}, result : {None}, after_success : {FALSE},
                                 after_failure : {FALSE}]]

\* A call of the same key has returned Ok.
SucceededBefore(key) ==
    \E d \in Callers :
        callers[d].key = key /\ callers[d].st = "done" /\ callers[d].result.ok

\* A call of the same key has returned Err.
FailedBefore(key) ==
    \E d \in Callers :
        callers[d].key = key /\ callers[d].st = "done" /\ ~callers[d].result.ok

\* try_get_with is called.
call_try_get_with(c) ==
    /\ callers[c].st = "idle"
    /\ callers' = [callers EXCEPT ![c] =
                      [@ EXCEPT !.st = "called",
                                !.after_success = SucceededBefore(callers[c].key),
                                !.after_failure = FailedBefore(callers[c].key)]]
    /\ UNCHANGED <<client_vars, combiner_vars, join_vars, session, request_vars, chain, store, lock>>

\* cache.rs 109: `self.lock().await` before the lookup.
lock_for_get(c) ==
    /\ cache_kind = "HashMap"
    /\ callers[c].st = "called"
    /\ lock = 0
    /\ lock' = c
    /\ callers' = [callers EXCEPT ![c] = [@ EXCEPT !.st = "get"]]
    /\ UNCHANGED <<client_vars, combiner_vars, join_vars, session, request_vars, chain, store>>

\* Variant: after a miss the guard lives on through the compute.
get_cached_keeping_guard(c) ==
    /\ callers[c].st = "get"
    /\ lock = c
    /\ LET hit == cache_get(cache_kind, store, callers[c].key)
       IN  /\ lock' = IF hit.ok THEN 0 ELSE c
           /\ callers' = [callers EXCEPT ![c] =
                             IF hit.ok
                             THEN [@ EXCEPT !.st = "done", !.result = hit]
                             ELSE [@ EXCEPT !.st = "computing"]]
    /\ UNCHANGED <<client_vars, combiner_vars, join_vars, session, request_vars, chain, store>>

\* cache.rs 110-116: the lookup, the guard dropped; a hit returns the clone.
get_cached(c) ==
    /\ callers[c].st = "get"
    /\ lock = c
    /\ lock' = 0
    /\ LET hit == cache_get(cache_kind, store, callers[c].key)
       IN  callers' = [callers EXCEPT ![c] =
                          IF hit.ok
                          THEN [@ EXCEPT !.st = "done", !.result = hit]
                          ELSE [@ EXCEPT !.st = "computing"]]
    /\ UNCHANGED <<client_vars, combiner_vars, join_vars, session, request_vars, chain, store>>

\* cache.rs 85: NoCache awaits the compute function at once.
start_init(c) ==
    /\ cache_kind = "NoCache"
    /\ callers[c].st = "called"
    /\ callers' = [callers EXCEPT ![c] = [@ EXCEPT !.st = "computing"]]
    /\ UNCHANGED <<client_vars, combiner_vars, join_vars, session, request_vars, chain, store, lock>>

\* `init.await` gives Ok(value) (cache.rs 116, 85).
init_ok(c) ==
    /\ callers[c].st = "computing"
    /\ LET value == <<callers[c].key, c>>
       IN  callers' = [callers EXCEPT ![c] =
                          IF cache_kind = "HashMap"
                          THEN [@ EXCEPT !.st = "lock_insert", !.value = value,
                                         !.computes = @ + 1]
                          ELSE [@ EXCEPT !.st = "done", !.value = value,
                                         !.result = Ok(value), !.computes = @ + 1]]
    /\ UNCHANGED <<client_vars, combiner_vars, join_vars, session, request_vars, chain, store, lock>>

\* Variant: a failed compute leaves an entry under the key.
init_err_poisons(c) ==
    /\ callers[c].st = "computing"
    /\ callers' = [callers EXCEPT ![c] =
                      [@ EXCEPT !.st = "done", !.result = Err("Init"), !.computes = @ + 1]]
    /\ store' = cache_insert(cache_kind, store, callers[c].key, <<callers[c].key, 0>>)
    /\ UNCHANGED <<client_vars, combiner_vars, join_vars, session, request_vars, chain, lock>>

\* `init.await` gives Err (cache.rs 127, 85): nothing is stored.
init_err(c) ==
    /\ callers[c].st = "computing"
    /\ callers' = [callers EXCEPT ![c] =
                      [@ EXCEPT !.st = "done", !.result = Err("Init"), !.computes = @ + 1]]
    /\ UNCHANGED <<client_vars, combiner_vars, join_vars, session, request_vars, chain, store, lock>>

\* cache.rs 121: `self.lock().await` before the insert.
lock_for_insert(c) ==
    /\ callers[c].st = "lock_insert"
    /\ lock = 0
    /\ lock' = c
    /\ callers' = [callers EXCEPT ![c] = [@ EXCEPT !.st = "insert"]]
    /\ UNCHANGED <<client_vars, combiner_vars, join_vars, session, request_vars, chain, store>>

\* Variant: an entry already under the key is kept and returned.
insert_value_keeps_first(c) ==
    /\ callers[c].st = "insert"
    /\ lock = c
    /\ lock' = 0
    /\ LET key == callers[c].key
           kept == IF key \in DOMAIN store THEN store[key] ELSE callers[c].value
       IN  /\ store' = cache_insert(cache_kind, store, key, kept)
           /\ callers' = [callers EXCEPT ![c] = [@ EXCEPT !.st = "done", !.result = Ok(kept)]]
    /\ UNCHANGED <<client_vars, combiner_vars, join_vars, session, request_vars, chain>>

\* Variant: an entry already under the key is changed in place, the new
\* value merged into it.
insert_value_patching(c) ==
    /\ callers[c].st = "insert"
    /\ lock = c
    /\ lock' = 0
    /\ LET key == callers[c].key
           patched == IF key \in DOMAIN store
                      THEN <<key, store[key][2] + c>>
                      ELSE callers[c].value
       IN  store' = cache_insert(cache_kind, store, key, patched)
    /\ callers' = [callers EXCEPT ![c] =
                      [@ EXCEPT !.st = "done", !.result = Ok(callers[c].value)]]
    /\ UNCHANGED <<client_vars, combiner_vars, join_vars, session, request_vars, chain>>

\* cache.rs 122-125: the insert, the guard dropped, Ok(value).
insert_value(c) ==
    /\ callers[c].st = "insert"
    /\ lock = c
    /\ lock' = 0
    /\ store' = cache_insert(cache_kind, store, callers[c].key, callers[c].value)
    /\ callers' = [callers EXCEPT ![c] =
                      [@ EXCEPT !.st = "done", !.result = Ok(callers[c].value)]]
    /\ UNCHANGED <<client_vars, combiner_vars, join_vars, session, request_vars, chain>>

CallTryGetWith == \E c \in Callers : call_try_get_with(c)
LockForGet == \E c \in Callers : lock_for_get(c)
GetCached == \E c \in Callers : get_cached(c)
StartInit == \E c \in Callers : start_init(c)
InitOk == \E c \in Callers : init_ok(c)
InitErr == \E c \in Callers : init_err(c)
LockForInsert == \E c \in Callers : lock_for_insert(c)
InsertValue == \E c \in Callers : insert_value(c)

NextCache ==
    \/ CallTryGetWith
    \/ LockForGet
    \/ GetCached
    \/ StartInit
    \/ InitOk
    \/ InitErr
    \/ LockForInsert
    \/ InsertValue

SpecCache == InitCache /\ [][NextCache]_vars

\* tokio's Mutex hands the lock to its waiters in the order they asked
\* (cache.rs 21, 109, 121), and a task that holds the guard runs to the end
\* of the block that drops it (108-111, 120-123).  Nothing is assumed of the
\* compute: `init.await` (85, 116) may never finish.
FairSpecCache ==
    /\ SpecCache
    /\ \A c \in Callers :
          /\ SF_vars(lock_for_get(c))
          /\ WF_vars(get_cached(c))
          /\ WF_vars(start_init(c))
          /\ SF_vars(lock_for_insert(c))
          /\ WF_vars(insert_value(c))

(***************************************************************************)
(* base_client.rs 311-337 and 339-401 step by step: the join_all of        *)
(* fetch_key_server_info and of fetch_derived_keys, whose sub-requests     *)
(* complete in any order.                                                  *)
(***************************************************************************)
InitJoin ==
    /\ ClientInit
    /\ CombinerIdle
    /\ CacheIdle
    /\ ChainGood
    /\ JoinIdle
    /\ RequestsIdle
    /\ SessionIdle

\* One sub-request per entry of the list; `sent` counts the times its
\* computation (the chain lookup, the POST) has been started.
NewSubs(ids) ==
    [i \in 1..Len(ids) |-> [id |-> ids[i], st |-> "new", out |-> None, sent |-> 0]]

\* fetch_key_server_info is called (311-330).
start_resolve(key_server_ids) ==
    /\ join_kind = "none"
    /\ join_result = None
    /\ join_kind' = "directory"
    /\ subs' = NewSubs(key_server_ids)
    /\ UNCHANGED <<client_vars, combiner_vars, cache_vars, session, request_vars, chain, order, join_result,
                   refetch, posted>>

\* fetch_derived_keys is called (339-383).
start_fetch(key_servers, threshold) ==
    /\ join_kind = "none"
    /\ join_result = None
    /\ join_kind' = "fetch"
    /\ subs' = NewSubs(key_servers)
    /\ call' = [request |-> RequestFor(EncryptId), enc_secret |-> EncSecret,
                threshold |-> threshold,
                servers_public_keys_map |-> [s \in Range(key_servers) |-> PublicKey(s)]]
    /\ UNCHANGED <<combiner_vars, cache_vars, session, request_vars, chain, order, join_result,
                   refetch, posted,
                   cache_kind, key_server_info_cache, derived_key_cache, objects, pc,
                   tasks, fetched, outcome>>

\* The cache and the key a sub-request goes through.
SubKey(i) ==
    IF join_kind = "directory"
    THEN KeyServerInfoCacheKey(subs[i].id)
    ELSE DerivedKeyCacheKey(call.request, subs[i].id, call.threshold)

SubCache == IF join_kind = "directory" THEN key_server_info_cache ELSE derived_key_cache

\* What the sub-request computes when it succeeds: the chain's record
\* (sui_client.get_key_server_info), or the server's response (351-375).
SubValue(i) ==
    IF join_kind = "directory"
    THEN KeyServerInfo(subs[i].id)
    ELSE <<subs[i].id, FetchKeyResponse(subs[i].id, call.request, TRUE)>>

SubError(i) ==
    [ok |-> FALSE,
     err |-> [kind |-> IF join_kind = "directory" THEN "SuiClient" ELSE "Transport",
              id |-> subs[i].id]]

\* The first poll of sub-request i (cache.rs 108-116).
poll_sub(i) ==
    /\ join_kind # "none"
    /\ join_result = None
    /\ subs[i].st = "new"
    /\ \A j \in 1..(i - 1) : subs[j].st # "new"
    /\ LET hit == cache_get(cache_kind, SubCache, SubKey(i))
       IN  IF hit.ok
           THEN /\ subs' = [subs EXCEPT ![i] = [@ EXCEPT !.st = "ok", !.out = hit]]
                /\ order' = Append(order, i)
           ELSE /\ subs' = [subs EXCEPT ![i] = [@ EXCEPT !.st = "inflight", !.sent = @ + 1]]
                /\ order' = order
    /\ UNCHANGED <<client_vars, combiner_vars, cache_vars, session, request_vars, chain, join_kind,
                   join_result, refetch, posted>>

\* Variant: a record is kept only if its public key decodes.
sub_succeeds_keeping_decodable(i) ==
    /\ join_kind # "none"
    /\ join_result = None
    /\ subs[i].st = "inflight"
    /\ \A j \in 1..Len(subs) : subs[j].st # "new"
    /\ subs' = [subs EXCEPT ![i] = [@ EXCEPT !.st = "ok", !.out = Ok(SubValue(i))]]
    /\ order' = Append(order, i)
    /\ IF join_kind = "directory"
       THEN /\ key_server_info_cache' =
                  IF decode_public_key(SubValue(i)).ok
                  THEN cache_insert(cache_kind, key_server_info_cache, SubKey(i),
                                    SubValue(i))
                  ELSE key_server_info_cache
            /\ UNCHANGED <<derived_key_cache, posted>>
       ELSE /\ derived_key_cache' =
                  cache_insert(cache_kind, derived_key_cache, SubKey(i), SubValue(i))
            /\ posted' = posted \cup {[request |-> call.request, server_id |-> subs[i].id,
                                        threshold |-> call.threshold]}
            /\ UNCHANGED key_server_info_cache
    /\ UNCHANGED <<combiner_vars, cache_vars, session, request_vars, chain, join_kind, join_result,
                   refetch, cache_kind, objects, pc, call, tasks, fetched, outcome>>

\* Sub-request i completes with a value; the cache keeps it (cache.rs 119-125).
sub_succeeds(i) ==
    /\ join_kind # "none"
    /\ join_result = None
    /\ subs[i].st = "inflight"
    /\ \A j \in 1..Len(subs) : subs[j].st # "new"
    /\ subs' = [subs EXCEPT ![i] = [@ EXCEPT !.st = "ok", !.out = Ok(SubValue(i))]]
    /\ order' = Append(order, i)
    /\ IF join_kind = "directory"
       THEN /\ key_server_info_cache' =
                  cache_insert(cache_kind, key_server_info_cache, SubKey(i), SubValue(i))
            /\ UNCHANGED <<derived_key_cache, posted>>
       ELSE /\ derived_key_cache' =
                  cache_insert(cache_kind, derived_key_cache, SubKey(i), SubValue(i))
            /\ posted' = posted \cup {[request |-> call.request, server_id |-> subs[i].id,
                                        threshold |-> call.threshold]}
            /\ UNCHANGED key_server_info_cache
    /\ UNCHANGED <<combiner_vars, cache_vars, session, request_vars, chain, join_kind, join_result,
                   refetch, cache_kind, objects, pc, call, tasks, fetched, outcome>>

\* Variant: a computation that failed is started once more.
sub_fails_retrying(i) ==
    /\ join_kind # "none"
    /\ join_result = None
    /\ subs[i].st = "inflight"
    /\ \A j \in 1..Len(subs) : subs[j].st # "new"
    /\ IF subs[i].sent < 2
       THEN /\ subs' = [subs EXCEPT ![i] = [@ EXCEPT !.sent = @ + 1]]
            /\ order' = order
       ELSE /\ subs' = [subs EXCEPT ![i] = [@ EXCEPT !.st = "err", !.out = SubError(i)]]
            /\ order' = Append(order, i)
    /\ UNCHANGED <<client_vars, combiner_vars, cache_vars, session, request_vars, chain, join_kind,
                   join_result, refetch, posted>>

\* Variant: the error is kept in the cache under the sub-request's key.
sub_fails_memoizing(i) ==
    /\ join_kind # "none"
    /\ join_result = None
    /\ subs[i].st = "inflight"
    /\ \A j \in 1..Len(subs) : subs[j].st # "new"
    /\ subs' = [subs EXCEPT ![i] = [@ EXCEPT !.st = "err", !.out = SubError(i)]]
    /\ order' = Append(order, i)
    /\ IF join_kind = "directory"
       THEN /\ key_server_info_cache' =
                  cache_insert(cache_kind, key_server_info_cache, SubKey(i), SubError(i))
            /\ UNCHANGED derived_key_cache
       ELSE /\ derived_key_cache' =
                  cache_insert(cache_kind, derived_key_cache, SubKey(i), SubError(i))
            /\ UNCHANGED key_server_info_cache
    /\ UNCHANGED <<combiner_vars, cache_vars, session, request_vars, chain, join_kind, join_result,
                   refetch, posted, cache_kind, objects, pc, call, tasks, fetched, outcome>>

\* Sub-request i completes with an error (cache.rs 127).
sub_fails(i) ==
    /\ join_kind # "none"
    /\ join_result = None
    /\ subs[i].st = "inflight"
    /\ \A j \in 1..Len(subs) : subs[j].st # "new"
    /\ subs' = [subs EXCEPT ![i] = [@ EXCEPT !.st = "err", !.out = SubError(i)]]
    /\ order' = Append(order, i)
    /\ UNCHANGED <<client_vars, combiner_vars, cache_vars, session, request_vars, chain, join_kind,
                   join_result, refetch, posted>>

\* Variant: the outputs come in the order the sub-requests completed.
join_all_outputs_as_completed(ss, completion) ==
    [k \in 1..Len(completion) |-> ss[completion[k]].out]

\* join_all gives the outputs in the order the futures were passed in.
join_all_outputs(ss, completion) == [i \in 1..Len(ss) |-> ss[i].out]

\* The outputs of the fetch's futures as fetch_derived_keys_result reads them.
AsTasks(outputs) ==
    [i \in 1..Len(outputs) |->
        IF outputs[i].ok
        THEN [st |-> "ok", resp |-> outputs[i].val]
        ELSE [st |-> "err", resp |-> NoResponse]]

\* join_all returns; the call collects (332-336, 385-400).
join_returns ==
    /\ join_kind # "none"
    /\ join_result = None
    /\ all_settled(subs)
    /\ LET outputs == join_all_outputs(subs, order)
       IN  join_result' = IF join_kind = "directory"
                          THEN collect_results(outputs, <<>>, 1)
                          ELSE fetch_derived_keys_result(AsTasks(outputs), call.threshold)
    /\ UNCHANGED <<client_vars, combiner_vars, cache_vars, session, request_vars, chain, join_kind,
                   subs, order, refetch, posted>>

\* fetch_derived_keys is called once more on the same client, for one
\* server, after the first call returned (339-383): the caches are the
\* client's, everything else is new.
next_fetch(id, server, threshold) ==
    /\ join_kind = "fetch"
    /\ join_result # None
    /\ ~refetch
    /\ refetch' = TRUE
    /\ subs' = NewSubs(<<server>>)
    /\ order' = <<>>
    /\ join_result' = None
    /\ call' = [request |-> RequestFor(id), enc_secret |-> EncSecret, threshold |-> threshold,
                servers_public_keys_map |-> [s \in {server} |-> PublicKey(s)]]
    /\ UNCHANGED <<combiner_vars, cache_vars, session, request_vars, chain, join_kind, posted,
                   cache_kind, key_server_info_cache, derived_key_cache, objects, pc,
                   tasks, fetched, outcome>>

\* fetch_derived_keys is called once more on the same client with the
\* request, the servers and the threshold of the call that just returned.
repeat_fetch ==
    /\ join_kind = "fetch"
    /\ join_result # None
    /\ ~refetch
    /\ refetch' = TRUE
    /\ subs' = NewSubs([i \in 1..Len(subs) |-> subs[i].id])
    /\ order' = <<>>
    /\ join_result' = None
    /\ UNCHANGED <<client_vars, combiner_vars, cache_vars, session, request_vars, chain,
                   join_kind, posted>>

StartResolve == \E key_server_ids \in ServerLists : start_resolve(key_server_ids)
StartFetch == \E key_servers \in ServerLists, threshold \in Thresholds :
                  start_fetch(key_servers, threshold)
NextFetch == \E id \in Ids, server \in Servers, threshold \in Thresholds :
                 next_fetch(id, server, threshold)
PollSub == \E i \in 1..Len(subs) : poll_sub(i)
SubSucceeds == \E i \in 1..Len(subs) : sub_succeeds(i)
SubFails == \E i \in 1..Len(subs) : sub_fails(i)
JoinReturns == join_returns
RepeatFetch == repeat_fetch

NextJoin ==
    \/ StartResolve
    \/ StartFetch
    \/ NextFetch
    \/ RepeatFetch
    \/ PollSub
    \/ SubSucceeds
    \/ SubFails
    \/ JoinReturns

SpecJoin == InitJoin /\ [][NextJoin]_vars

(***************************************************************************)
(* session_key.rs 35-92: SessionKey::new, step by step.  `fails` names the *)
(* signer operation that returns an error, if any; `ops` lists the signer  *)
(* operations made so far.                                                 *)
(***************************************************************************)
SignerOps == <<"get_sui_address", "get_public_key", "sign_personal_message">>

InitSession ==
    /\ ClientInit
    /\ cache_kind = "NoCache"
    /\ CombinerIdle
    /\ CacheIdle
    /\ ChainGood
    /\ JoinIdle
    /\ RequestsIdle
    /\ session \in [ttl_min : 0..MaxTtlInput, fails : {"none"} \cup Range(SignerOps),
                     pc : {0}, ops : {<<>>}, result : {None}]

\* Variant: the bounds themselves are rejected.
check_ttl_exclusive ==
    /\ session # None
    /\ session.pc = 0
    /\ session' =
          IF session.ttl_min <= MIN_TTL_MIN \/ session.ttl_min >= MAX_TTL_MAX
          THEN [session EXCEPT
                   !.pc = 4,
                   !.result = [ok |-> FALSE,
                               err |-> [kind |-> "InvalidTTLMin", min |-> MIN_TTL_MIN,
                                        max |-> MAX_TTL_MAX, received |-> session.ttl_min]]]
          ELSE [session EXCEPT !.pc = 1]
    /\ UNCHANGED <<client_vars, combiner_vars, cache_vars, join_vars, request_vars, chain>>

\* Lines 47-55: the ttl check, before anything else is done.
check_ttl ==
    /\ session # None
    /\ session.pc = 0
    /\ session' =
          IF session.ttl_min < MIN_TTL_MIN \/ session.ttl_min > MAX_TTL_MAX
          THEN [session EXCEPT
                   !.pc = 4,
                   !.result = [ok |-> FALSE,
                               err |-> [kind |-> "InvalidTTLMin", min |-> MIN_TTL_MIN,
                                        max |-> MAX_TTL_MAX, received |-> session.ttl_min]]]
          ELSE [session EXCEPT !.pc = 1]
    /\ UNCHANGED <<client_vars, combiner_vars, cache_vars, join_vars, request_vars, chain>>

\* Lines 57, 58 and 77-79: the signer operation number n; its error ends
\* the call (`?`), the last one's success ends it with the session key.
signer_op(n) ==
    /\ session # None
    /\ session.pc = n
    /\ n \in 1..3
    /\ session' =
          IF session.fails = SignerOps[n]
          THEN [session EXCEPT !.pc = 4, !.ops = Append(@, SignerOps[n]),
                               !.result = Err("Signer")]
          ELSE IF n < 3
          THEN [session EXCEPT !.pc = n + 1, !.ops = Append(@, SignerOps[n])]
          ELSE [session EXCEPT !.pc = 4, !.ops = Append(@, SignerOps[n]),
                               !.result = Ok([ttl_min |-> session.ttl_min,
                                              package_id |-> PackageId])]
    /\ UNCHANGED <<client_vars, combiner_vars, cache_vars, join_vars, request_vars, chain>>

CheckTtl == check_ttl
SignerOp == \E n \in 1..3 : signer_op(n)

NextSession ==
    \/ CheckTtl
    \/ SignerOp

SpecSession == InitSession /\ [][NextSession]_vars

(***************************************************************************)
(* session_key.rs 57-91 against the clock: SessionKey::new reads           *)
(* Utc::now() for the message (62), awaits the signer (77-79), and reads   *)
(* Utc::now() again for the field creation_time_ms (85).  The clock is in  *)
(* milliseconds and moves at any moment.                                   *)
(***************************************************************************)
ClockStart == 998
MaxClock == 1001

InitClock ==
    /\ ClientInit
    /\ cache_kind = "NoCache"
    /\ CombinerIdle
    /\ CacheIdle
    /\ ChainGood
    /\ JoinIdle
    /\ RequestsIdle
    /\ session \in [ttl_min : {MIN_TTL_MIN, MAX_TTL_MAX}, user : {"alice", "bob"},
                     seed : {"s1", "s2"}, clock : ClockStart..MaxClock, pc : {"new"},
                     now_ms : {0}, result : {None}]

\* Time passes.
tick ==
    /\ session # None
    /\ session.clock < MaxClock
    /\ session' = [session EXCEPT !.clock = @ + 1]
    /\ UNCHANGED <<client_vars, combiner_vars, cache_vars, join_vars, request_vars, chain>>

\* Lines 57-75: the signer's address and key, the session keypair, now_ms
\* and the message to sign.
build_message ==
    /\ session # None
    /\ session.pc = "new"
    /\ session' = [session EXCEPT !.pc = "signing", !.now_ms = session.clock]
    /\ UNCHANGED <<client_vars, combiner_vars, cache_vars, join_vars, request_vars, chain>>

\* Lines 77-91: the signer answers and the SessionKey is built, its
\* creation_time_ms read from the clock at that moment.
signature_returns ==
    /\ session # None
    /\ session.pc = "signing"
    /\ session' = [session EXCEPT
                      !.pc = "done",
                      !.result = Ok(new_session_key(PackageId, session.ttl_min,
                                                    session.user, session.seed,
                                                    session.now_ms, session.clock))]
    /\ UNCHANGED <<client_vars, combiner_vars, cache_vars, join_vars, request_vars, chain>>

NextClock ==
    \/ tick
    \/ build_message
    \/ signature_returns

SpecClock == InitClock /\ [][NextClock]_vars

(***************************************************************************)
(* The client over any on-chain records and any input to decrypt: the key  *)
(* text of a record may be malformed, the byte strings handed to decrypt   *)
(* may be envelopes made earlier or undecodable bytes.                     *)
(***************************************************************************)
\* The records of the chain: those of servers 1 and 2, the servers the
\* envelopes made earlier list, hold any key text.
ChainChoices ==
    {[s \in Servers |-> IF s = 1 THEN k[1] ELSE IF s = 2 THEN k[2] ELSE "good"] :
        k \in KeyTexts \X KeyTexts}

InitKeys ==
    /\ cache_kind \in {"NoCache", "HashMap"}
    /\ key_server_info_cache = EmptyMap
    /\ derived_key_cache = EmptyMap
    /\ objects \in ListsUpTo(EnvelopeChoices \cup UndecodableBytes, MaxItems)
    /\ pc = "idle"
    /\ call = None
    /\ tasks = <<>>
    /\ fetched = None
    /\ outcome = None
    /\ CombinerIdle
    /\ CacheIdle
    /\ chain \in ChainChoices
    /\ JoinIdle
    /\ RequestsIdle
    /\ SessionIdle

NextKeys ==
    \/ Encrypt
    \/ StartDecrypt

SpecKeys == InitKeys /\ [][NextKeys]_vars

(***************************************************************************)
(* One decrypt call over one envelope made earlier, followed through all   *)
(* its stages, over any on-chain records.                                  *)
(***************************************************************************)
InitStages ==
    /\ cache_kind \in {"NoCache", "HashMap"}
    /\ key_server_info_cache = EmptyMap
    /\ derived_key_cache = EmptyMap
    /\ objects \in {<<encrypted_object>> : encrypted_object \in EnvelopeChoices}
    /\ pc = "idle"
    /\ call = None
    /\ tasks = <<>>
    /\ fetched = None
    /\ outcome = None
    /\ CombinerIdle
    /\ CacheIdle
    /\ chain \in ChainChoices
    /\ JoinIdle
    /\ RequestsIdle
    /\ SessionIdle

NextStages ==
    \/ StartDecrypt
    \/ Dispatch
    \/ ServerAnswers
    \/ ServerFails
    \/ Join

SpecStages == InitStages /\ [][NextStages]_vars

(***************************************************************************)
(* session_key.rs 102-138 called directly: get_fetch_key_request, several  *)
(* times, on the session keys of two users.                                *)
(***************************************************************************)
SessionKeys ==
    { new_session_key(PackageId, MIN_TTL_MIN, "alice", "s1", 0, 0),
      new_session_key(PackageId, MAX_TTL_MAX, "alice", "s2", 0, 0),
      new_session_key(PackageId, MAX_TTL_MAX, "bob", "s3", 0, 0) }

InitRequests ==
    /\ ClientInit
    /\ cache_kind = "NoCache"
    /\ CombinerIdle
    /\ CacheIdle
    /\ ChainGood
    /\ JoinIdle
    /\ SessionIdle
    /\ RequestsIdle

\* One call: the keypair is drawn, the request built and signed.
request_keys(session_key, ptb_id) ==
    /\ Len(requests) < MaxRequests
    /\ LET approve_transaction_data == bcs_to_bytes([package_id |-> PackageId, id |-> ptb_id])
       IN  requests' = Append(requests,
                              [session_key |-> session_key,
                               approve_transaction_data |-> approve_transaction_data,
                               result |-> get_fetch_key_request(
                                              session_key, approve_transaction_data, rng + 1)])
    /\ rng' = rng + 1
    /\ UNCHANGED <<client_vars, combiner_vars, cache_vars, join_vars, session, chain>>

RequestKeys == \E session_key \in SessionKeys, ptb_id \in Ids : request_keys(session_key, ptb_id)

NextRequests == RequestKeys

SpecRequests == InitRequests /\ [][NextRequests]_vars

(***************************************************************************)
(* base_client.rs 134-178 step by step: encrypt_multiple_bytes over any    *)
(* on-chain records, the lookups of its fetch_key_server_info completing   *)
(* in any order.  `call` holds the arguments of the call.                  *)
(***************************************************************************)
\* The records the call may find: that of server 2 may hold any key text.
EncryptChains == {c \in ChainChoices : c[1] = "good"}

\* The server lists of the calls: one server, one server named twice, two.
EncryptLists == {l \in ServerLists : Len(l) <= 2}

InitEncrypt ==
    /\ ClientInit
    /\ CombinerIdle
    /\ CacheIdle
    /\ chain \in EncryptChains
    /\ JoinIdle
    /\ RequestsIdle
    /\ SessionIdle

\* Lines 134-149: the call, up to the futures of fetch_key_server_info
\* (311-330).
start_encrypt(id, threshold, key_servers, data) ==
    /\ pc = "idle"
    /\ join_kind = "none"
    /\ pc' = "encrypting"
    /\ call' = [package_id |-> PackageId, id |-> id, threshold |-> threshold,
                key_servers |-> key_servers, data |-> data]
    /\ join_kind' = "directory"
    /\ subs' = NewSubs(key_servers)
    /\ UNCHANGED <<combiner_vars, cache_vars, session, request_vars, chain, order, join_result,
                   refetch, posted, cache_kind, key_server_info_cache, derived_key_cache,
                   objects, tasks, fetched, outcome>>

\* Lines 149-177: what the call returns once fetch_key_server_info gave
\* key_server_info.
encrypt_with(key_server_info, package_id, id, threshold, key_servers, data) ==
    IF ~key_server_info.ok
    THEN key_server_info
    ELSE LET infos == key_server_info.val
             public_keys_g2 ==
                 collect_results([i \in 1..Len(infos) |-> decode_public_key(infos[i])],
                                 <<>>, 1)
         IN  IF ~public_keys_g2.ok
             THEN public_keys_g2
             ELSE encrypt_each(package_id, id, key_servers, public_keys_g2.val,
                               threshold, data, <<>>, 1)

\* join_all returns (332-336) and the call runs to its end (149-177).
encrypt_returns ==
    /\ pc = "encrypting"
    /\ join_result = None
    /\ all_settled(subs)
    /\ LET key_server_info == collect_results(join_all_outputs(subs, order), <<>>, 1)
           r == encrypt_with(key_server_info, call.package_id, call.id, call.threshold,
                             call.key_servers, call.data)
       IN  /\ join_result' = key_server_info
           /\ outcome' = r
           /\ objects' = IF r.ok THEN r.val ELSE objects
    /\ pc' = "done"
    /\ UNCHANGED <<combiner_vars, cache_vars, session, request_vars, chain, join_kind, subs,
                   order, refetch, posted, cache_kind, key_server_info_cache,
                   derived_key_cache, call, tasks, fetched>>

\* The call has returned; the caller may call once more, the client and
\* its caches being what the call left.
next_call ==
    /\ pc = "done"
    /\ join_kind = "directory"
    /\ pc' = "idle"
    /\ join_kind' = "none"
    /\ subs' = <<>>
    /\ order' = <<>>
    /\ join_result' = None
    /\ call' = None
    /\ outcome' = None
    /\ objects' = <<>>
    /\ UNCHANGED <<combiner_vars, cache_vars, session, request_vars, chain, refetch, posted,
                   cache_kind, key_server_info_cache, derived_key_cache, tasks, fetched>>

StartEncrypt ==
    \E threshold \in Thresholds, key_servers \in EncryptLists,
       data \in ListsUpTo(Payloads, MaxItems) :
        start_encrypt(EncryptId, threshold, key_servers, data)

EncryptReturns == encrypt_returns

NextEncrypt ==
    \/ StartEncrypt
    \/ PollSub
    \/ SubSucceeds
    \/ SubFails
    \/ EncryptReturns
    \/ next_call

SpecEncrypt == InitEncrypt /\ [][NextEncrypt]_vars

(***************************************************************************)
(* Encrypt and decrypt calls, one after the other, on one client whose     *)
(* directory may hold a record with an undecodable key: the resolution of  *)
(* decrypt_multiple_objects_bytes (base_client.rs 270-286) step by step.   *)
(***************************************************************************)
\* Lines 252-278: the call over byte strings that decode, up to the futures
\* of fetch_key_server_info for the services of the first envelope.
start_decrypt(encrypted_objects) ==
    /\ pc = "idle"
    /\ join_kind = "none"
    /\ encrypted_objects # <<>>
    /\ objects' = encrypted_objects
    /\ pc' = "resolving"
    /\ join_kind' = "directory"
    /\ subs' = NewSubs([i \in 1..Len(encrypted_objects[1].services) |->
                           encrypted_objects[1].services[i][1]])
    /\ UNCHANGED <<combiner_vars, cache_vars, session, request_vars, chain, order, join_result,
                   refetch, posted, cache_kind, key_server_info_cache, derived_key_cache,
                   call, tasks, fetched, outcome>>

\* join_all returns (332-336); lines 278-297: the error of the lookups or
\* of a key that does not decode ends the call, otherwise the request is
\* built and the futures of fetch_derived_keys are made.
decrypt_resolved(ptb_id) ==
    /\ pc = "resolving"
    /\ join_result = None
    /\ all_settled(subs)
    /\ LET key_server_info == collect_results(join_all_outputs(subs, order), <<>>, 1)
           infos == key_server_info.val
           decoded_keys == collect_results(
                               [i \in 1..Len(infos) |-> decode_public_key(infos[i])],
                               <<>>, 1)
           req == get_fetch_key_request(
                      ClientSession, bcs_to_bytes([package_id |-> PackageId, id |-> ptb_id]),
                      rng + 1)
       IN  /\ join_result' = key_server_info
           /\ IF ~key_server_info.ok
              THEN /\ outcome' = key_server_info
                   /\ pc' = "done"
                   /\ UNCHANGED <<call, tasks, rng>>
              ELSE IF ~decoded_keys.ok
              THEN /\ outcome' = decoded_keys
                   /\ pc' = "done"
                   /\ UNCHANGED <<call, tasks, rng>>
              ELSE /\ outcome' = None
                   /\ pc' = "fetch"
                   /\ rng' = rng + 1
                   /\ call' = [request |-> req.request,
                               enc_secret |-> req.enc_secret,
                               threshold |-> objects[1].threshold,
                               servers_public_keys_map |->
                                   [s \in {infos[i].object_id : i \in 1..Len(infos)} |->
                                       decoded_keys.val[CHOOSE i \in 1..Len(infos) :
                                                           infos[i].object_id = s]]]
                   /\ tasks' = [i \in 1..Len(infos) |->
                                   [server |-> infos[i].object_id, st |-> "new",
                                    resp |-> NoResponse]]
    /\ UNCHANGED <<combiner_vars, cache_vars, session, requests, chain, join_kind, subs,
                   order, refetch, posted, cache_kind, key_server_info_cache,
                   derived_key_cache, objects, fetched>>

NextRecords ==
    \/ StartEncrypt
    \/ \E encrypted_object \in EnvelopeChoices : start_decrypt(<<encrypted_object>>)
    \/ PollSub
    \/ SubSucceeds
    \/ SubFails
    \/ EncryptReturns
    \/ \E ptb_id \in Ids : decrypt_resolved(ptb_id)
    \/ next_call

SpecRecords == InitEncrypt /\ [][NextRecords]_vars

(***************************************************************************)
(* base_client.rs 252-309 over any list of envelopes: the empty list,      *)
(* several envelopes of one or of different server lists, envelopes with   *)
(* threshold 0 or with no services.                                        *)
(***************************************************************************)
DecryptEnvelopes ==
    CombinerEnvelopes \cup
        { EnvelopeOf("a", <<1, 3>>, 1, <<>>),
          EnvelopeOf("a", <<1>>, 0, <<0, 1, 2, 3>>),
          EnvelopeOf("a", <<>>, 0, <<0, 1, 2, 3>>) }

InitDecrypt ==
    /\ cache_kind \in {"NoCache", "HashMap"}
    /\ key_server_info_cache = EmptyMap
    /\ derived_key_cache = EmptyMap
    /\ objects \in ListsUpTo(DecryptEnvelopes, MaxItems)
    /\ pc = "idle"
    /\ call = None
    /\ tasks = <<>>
    /\ fetched = None
    /\ outcome = None
    /\ CombinerIdle
    /\ CacheIdle
    /\ ChainGood
    /\ JoinIdle
    /\ RequestsIdle
    /\ SessionIdle

NextDecrypt ==
    \/ StartDecrypt
    \/ Dispatch
    \/ ServerAnswers
    \/ ServerFails
    \/ Join

SpecDecrypt == InitDecrypt /\ [][NextDecrypt]_vars

(***************************************************************************)
(* Several decrypt calls, one after the other, on one client: the caches   *)
(* are the client's, the request of each call is new (base_client.rs       *)
(* 288-297, session_key.rs 125-138).                                       *)
(***************************************************************************)
MaxCalls == 2

InitCalls ==
    /\ cache_kind \in {"NoCache", "HashMap"}
    /\ key_server_info_cache = EmptyMap
    /\ derived_key_cache = EmptyMap
    /\ objects \in {<<encrypted_object>> : encrypted_object \in CombinerEnvelopes}
    /\ pc = "idle"
    /\ call = None
    /\ tasks = <<>>
    /\ fetched = None
    /\ outcome = None
    /\ CombinerIdle
    /\ CacheIdle
    /\ ChainGood
    /\ JoinIdle
    /\ RequestsIdle
    /\ SessionIdle

\* The decrypt call has returned and the caller calls once more with the
\* same envelopes.
decrypt_again ==
    /\ pc = "done"
    /\ rng < MaxCalls
    /\ pc' = "idle"
    /\ call' = None
    /\ tasks' = <<>>
    /\ fetched' = None
    /\ outcome' = None
    /\ UNCHANGED <<combiner_vars, cache_vars, join_vars, session, request_vars, chain,
                   cache_kind, key_server_info_cache, derived_key_cache, objects>>

NextCalls ==
    \/ StartDecrypt
    \/ Dispatch
    \/ ServerAnswers
    \/ ServerFails
    \/ Join
    \/ decrypt_again

SpecCalls == InitCalls /\ [][NextCalls]_vars

(***************************************************************************)
(* Vocabulary of the claims about one encrypt/decrypt run.                 *)
(***************************************************************************)
Envelope == objects[1]
EnvelopeServers == {Envelope.services[i][1] : i \in 1..Len(Envelope.services)}
EnvelopeFullId == create_full_id(Envelope.package_id, Envelope.id)
DistinctServers == Cardinality(EnvelopeServers) = Len(Envelope.services)

\* The decrypt call went through the key fetch and has returned.
DecryptReturned == pc = "done" /\ fetched # None

\* The shares of the response of future i that verify for the envelope.
VerifiedShares(i) ==
    {k \in 1..Len(tasks[i].resp[2].decryption_keys) :
        LET key == tasks[i].resp[2].decryption_keys[k] IN
          /\ key.id = EnvelopeFullId
          /\ verify_user_secret_key(
                 elgamal_decrypt(call.enc_secret, key.encrypted_key),
                 key.id, PublicKey(tasks[i].server))}

\* Server i answered the key-release request correctly.
AnsweredCorrectly(i) ==
    /\ tasks[i].st = "ok"
    /\ VerifiedShares(i) = 1..Len(tasks[i].resp[2].decryption_keys)
    /\ VerifiedShares(i) # {}

\* Server i released a share that does not verify.
ReleasedInvalidShare(i) ==
    /\ tasks[i].st = "ok"
    /\ \E k \in 1..Len(tasks[i].resp[2].decryption_keys) :
          LET key == tasks[i].resp[2].decryption_keys[k] IN
            ~verify_user_secret_key(
                 elgamal_decrypt(call.enc_secret, key.encrypted_key),
                 key.id, PublicKey(tasks[i].server))

\* The distinct servers that contributed a verified share for the envelope.
Contributors ==
    {tasks[i].server : i \in {j \in 1..Len(tasks) : tasks[j].st = "ok" /\ VerifiedShares(j) # {}}}

CorrectServers == {tasks[i].server : i \in {j \in 1..Len(tasks) : AnsweredCorrectly(j)}}

\* C1 (as claimed).  For an envelope built with n distinct servers and a
\* threshold 1 <= t <= n: when at least t of its servers answered the
\* key-release request correctly and the others did not answer (their
\* request failed), the decrypt call returns the original payload.
C1_ThresholdSubsetDecrypts ==
    ( /\ DecryptReturned
      /\ DistinctServers
      /\ Envelope.threshold >= 1
      /\ Envelope.threshold <= Len(Envelope.services)
      /\ \A i \in 1..Len(tasks) : AnsweredCorrectly(i) \/ tasks[i].st = "err"
      /\ Cardinality(CorrectServers) >= Envelope.threshold )
    => outcome = Ok(<<Envelope.ciphertext.sealed>>)

\* The futures of fetch_derived_keys that ended with a response.
Succeeded == {i \in 1..Len(tasks) : tasks[i].st = "ok"}

C4_ResultsInInputOrder ==
    (seal_result # None /\ seal_result.ok)
    => /\ Len(seal_result.val) = Len(seal_args.encrypted_objects)
       /\ \A i \in 1..Len(seal_args.encrypted_objects) :
             seal_result.val[i] = seal_args.encrypted_objects[i].ciphertext.sealed

\* Two envelopes of the same id and server set with different payloads came
\* back in the order they were passed.
C4_Witness ==
    /\ seal_result # None
    /\ seal_result.ok
    /\ Len(seal_args.encrypted_objects) = 2
    /\ seal_args.encrypted_objects[1].id = seal_args.encrypted_objects[2].id
    /\ seal_args.encrypted_objects[1].services = seal_args.encrypted_objects[2].services
    /\ seal_result.val = << <<0, 1, 2, 3>>, <<>> >>

\* The responses list names one server twice.
DuplicateServerId(seal_responses) ==
    \E i, j \in 1..Len(seal_responses) :
        i # j /\ seal_responses[i][1] = seal_responses[j][1]

\* C5 (as claimed).  The combiner returns an error for every call whose
\* responses list names one server twice, for every list of envelopes.
C5_DuplicateAlwaysRejected ==
    (seal_result # None /\ DuplicateServerId(seal_args.seal_responses))
    => ~seal_result.ok

\* C5 (amended).  The combiner returns an error for every call whose
\* responses list names one server twice and whose list of envelopes is not
\* empty, whether the shares are valid or not; when every share before the
\* repeated server verifies the error is the duplicate-server one.
C5_DuplicateRejected ==
    ( /\ seal_result # None
      /\ DuplicateServerId(seal_args.seal_responses)
      /\ seal_args.encrypted_objects # <<>> )
    => /\ ~seal_result.ok
       /\ seal_result.err.kind \in {"DuplicateServer", "InvalidShare"}

\* The same server twice, both times with valid shares of the envelope's id.
C5_Witness ==
    /\ seal_result = Err("DuplicateServer")
    /\ Len(seal_args.seal_responses) = 2
    /\ seal_args.seal_responses[1] = seal_args.seal_responses[2]
    /\ seal_args.seal_responses[1] = <<1, FetchKeyResponse(1, RequestFor("a"), TRUE)>>
    /\ Len(seal_args.encrypted_objects) >= 1
    /\ seal_args.encrypted_objects[1].id = "a"

\* C6.  When a server released a share that does not verify against its
\* public key and the share's item id, the decrypt call returns no plaintext,
\* whatever the other servers returned.
C6_InvalidShareIsFatal ==
    (DecryptReturned /\ \E i \in 1..Len(tasks) : ReleasedInvalidShare(i))
    => /\ ~outcome.ok
       /\ (fetched.ok => outcome.err.kind \in {"InvalidShare", "DuplicateServer"})

\* Three servers, threshold two: two valid shares, one invalid, no plaintext.
C6_Witness ==
    /\ DecryptReturned
    /\ DistinctServers
    /\ Len(Envelope.services) = 3
    /\ Envelope.threshold = 2
    /\ Cardinality(CorrectServers) = 2
    /\ \E i \in 1..Len(tasks) : ReleasedInvalidShare(i)
    /\ outcome = Err("InvalidShare")

\* The entries of a fetch result that name server s.
EntriesOf(val, s) == {j \in 1..Len(val) : val[j][1] = s}

\* C7.  fetch_derived_keys returns success iff at least `threshold` requests
\* succeeded; on success the list holds exactly one (server_id, response)
\* entry per request that succeeded, and on failure the error is
\* InsufficientKeys with received = the number of requests that succeeded and
\* threshold = the requested threshold.
C7_FetchResult ==
    fetched # None =>
        /\ fetched.ok <=> Cardinality(Succeeded) >= call.threshold
        /\ fetched.ok =>
              /\ Len(fetched.val) = Cardinality(Succeeded)
              /\ \A i \in Succeeded :
                    \E j \in 1..Len(fetched.val) :
                        fetched.val[j] = <<tasks[i].server, tasks[i].resp[2]>>
              /\ \A s \in Servers :
                    Cardinality(EntriesOf(fetched.val, s))
                        = Cardinality({i \in Succeeded : tasks[i].server = s})
        /\ ~fetched.ok =>
              fetched.err = [kind |-> "InsufficientKeys",
                             received |-> Cardinality(Succeeded),
                             threshold |-> call.threshold]

\* A fetch that returned more entries than the threshold, and one that
\* returned exactly as many.
C7_Witness ==
    /\ fetched # None
    /\ fetched.ok
    /\ call.threshold >= 1
    /\ Len(fetched.val) = call.threshold + 1
    /\ \E i \in 1..Len(tasks) : tasks[i].st = "err"

\* C8.  The failure of one server's request counts against that server only:
\* the call is still fetching or fetch_derived_keys ran to its end, every
\* response collected from another server is in the result unaltered, the
\* only error the fetch gives is InsufficientKeys, and a step in which a
\* request fails changes nothing but that request.
C8_FailureIsolated ==
    /\ [](  (\E i \in 1..Len(tasks) : tasks[i].st = "err")
          => /\ pc = "fetch" \/ fetched # None
             /\ fetched # None =>
                   /\ fetched.ok =>
                         \A i \in Succeeded :
                             \E j \in 1..Len(fetched.val) : fetched.val[j] = tasks[i].resp
                   /\ ~fetched.ok =>
                         /\ fetched.err.kind = "InsufficientKeys"
                         /\ outcome = fetched
                   /\ ~outcome.ok => outcome.err.kind \notin FailureKinds )
    /\ [][ \A i \in 1..Len(tasks) :
              (tasks[i].st = "inflight" /\ tasks'[i].st = "err")
              => /\ pc' = pc
                 /\ fetched' = fetched
                 /\ outcome' = outcome
                 /\ \A j \in (1..Len(tasks)) \ {i} : tasks'[j] = tasks[j] ]_vars

\* One request failed, the others' responses came back from the fetch.
C8_Witness ==
    /\ fetched # None
    /\ fetched.ok
    /\ Len(tasks) = 3
    /\ Cardinality(Succeeded) = 2
    /\ Len(fetched.val) = 2
    /\ \E i \in 1..Len(tasks) : tasks[i].st = "err"

\* The requests of the fetch that are still in flight.
InFlight == {i \in 1..Len(tasks) : tasks[i].st = "inflight"}

\* C9 (as claimed).  Once `threshold` requests have succeeded the fetch
\* returns without waiting for the requests still in flight: its return
\* does not depend on their ever completing.
C9_ReturnsAtThreshold ==
    (pc = "fetch" /\ call.threshold >= 1 /\ Cardinality(Succeeded) >= call.threshold)
        => ENABLED Join

\* C9 (amended).  The fetch returns only when every request has settled:
\* while one is outstanding join_all is not ready, however many requests
\* have succeeded, and a returned fetch has no request in flight.
C9_ReturnsAfterAllSettle ==
    /\ fetched # None => \A i \in 1..Len(tasks) : tasks[i].st \in {"ok", "err"}
    /\ (pc = "fetch" /\ \E i \in 1..Len(tasks) : tasks[i].st \in {"new", "inflight"})
          => ~ENABLED Join

\* The threshold is met, a request is in flight, the fetch has not returned.
C9_Witness ==
    /\ pc = "fetch"
    /\ call.threshold >= 1
    /\ Cardinality(Succeeded) >= call.threshold
    /\ InFlight # {}
    /\ fetched = None

\* C10.  With the map-backed cache, a try_get_with call made after a call
\* of the same key returned Ok never runs its compute function and returns
\* a value such a call stored; with NoCache every call runs its compute
\* function exactly once and returns its result.
C10_CacheContract ==
    \A c \in DOMAIN callers :
        /\ (cache_kind = "HashMap" /\ callers[c].after_success)
              => /\ callers[c].st \in {"called", "get", "done"}
                 /\ callers[c].computes = 0
                 /\ callers[c].st = "done"
                       => \E d \in Callers \ {c} :
                              /\ callers[d].key = callers[c].key
                              /\ callers[d].st = "done"
                              /\ callers[d].result = Ok(<<callers[d].key, d>>)
                              /\ callers[c].result = callers[d].result
        /\ cache_kind = "NoCache"
              => /\ callers[c].computes <= 1
                 /\ callers[c].st = "done"
                       => /\ callers[c].computes = 1
                          /\ callers[c].result \in {Ok(<<callers[c].key, c>>), Err("Init")}
                 /\ store = EmptyMap

\* A later call of a stored key returned the stored value without computing.
C10_Witness ==
    /\ cache_kind = "HashMap"
    /\ \E c, d \in Callers :
          /\ c # d
          /\ callers[c].after_success
          /\ callers[c].st = "done"
          /\ callers[c].computes = 0
          /\ callers[c].result = Ok(<<callers[d].key, d>>)

\* The callers of key k whose compute function returned Ok and who are done.
Computed(k) ==
    {d \in DOMAIN callers :
        /\ callers[d].key = k
        /\ callers[d].st = "done"
        /\ callers[d].computes = 1
        /\ callers[d].result = Ok(<<k, d>>)}

\* C11.  A try_get_with call whose compute function fails returns the error,
\* and the step leaves the cache as it was: no entry exists under a key
\* unless a compute of that key succeeded, so a call made after a failure
\* runs its compute function unless another call stored a value meanwhile.
C11_FailureNotCached ==
    /\ [](\A c \in DOMAIN callers :
            /\ (callers[c].st = "done" /\ callers[c].result # Ok(<<callers[c].key, c>>)
                 /\ callers[c].computes = 1)
                  => callers[c].result = Err("Init")
            /\ (cache_kind = "HashMap" /\ callers[c].st = "done" /\ callers[c].computes = 0)
                  => Computed(callers[c].key) # {}
            /\ callers[c].key \in DOMAIN store => Computed(callers[c].key) # {})
    /\ [][\A c \in DOMAIN callers :
              (callers[c].st = "computing" /\ callers'[c].st = "done")
              => store' = store]_vars

\* With the map: a call made after a failed call of its key computed again.
C11_Witness ==
    /\ cache_kind = "HashMap"
    /\ \E c \in DOMAIN callers :
          /\ callers[c].after_failure
          /\ ~callers[c].after_success
          /\ callers[c].st = "done"
          /\ callers[c].computes = 1
          /\ callers[c].key \in DOMAIN store

\* C12.  With the map-backed cache, however concurrent calls of one absent
\* key interleave, a caller whose compute succeeded receives its own value,
\* and once the calls of the key are done the cache holds one of the values
\* computed for it.
C12_NoCoalescing ==
    cache_kind = "HashMap" =>
        \A c \in DOMAIN callers :
            /\ (callers[c].st = "done" /\ callers[c].computes = 1 /\ callers[c].result.ok)
                  => callers[c].result = Ok(callers[c].value)
                     /\ callers[c].value = <<callers[c].key, c>>
            /\ (Computed(callers[c].key) # {}
                 /\ \A d \in DOMAIN callers :
                       callers[d].key = callers[c].key => callers[d].st = "done")
                  => /\ callers[c].key \in DOMAIN store
                     /\ \E d \in Computed(callers[c].key) :
                            store[callers[c].key] = <<callers[c].key, d>>

\* Two calls of one absent key both computed; each got its own value.
C12_Witness ==
    /\ cache_kind = "HashMap"
    /\ \E c, d \in DOMAIN callers :
          /\ c # d
          /\ callers[c].key = callers[d].key
          /\ c \in Computed(callers[c].key)
          /\ d \in Computed(callers[c].key)
          /\ store[callers[c].key] = <<callers[c].key, c>>

\* The sub-requests that ended with a value, and those that ended in an error.
SubsOk == {i \in 1..Len(subs) : subs[i].st = "ok"}
SubsFailed == {i \in 1..Len(subs) : subs[i].st = "err"}

\* C13.  fetch_key_server_info is all-or-nothing: it returns Ok iff no
\* lookup failed, Ok holds one record per requested id, in the order
\* requested, and a failure is the error of a failed lookup, never a list.
C13_AllOrNothing ==
    (join_kind = "directory" /\ join_result # None)
    => /\ join_result.ok <=> SubsFailed = {}
       /\ join_result.ok =>
             /\ Len(join_result.val) = Len(subs)
             /\ \A i \in 1..Len(subs) : join_result.val[i].object_id = subs[i].id
       /\ ~join_result.ok => \E i \in SubsFailed : join_result = subs[i].out

\* Three ids, two lookups succeeded, one failed: an error.
C13_Witness ==
    /\ join_kind = "directory"
    /\ join_result # None
    /\ Len(subs) = 3
    /\ Cardinality(SubsOk) = 2
    /\ ~join_result.ok

\* C14.  fetch_key_server_info returns only after every lookup it started
\* has settled; with the map-backed cache the record of every lookup that
\* succeeded is cached, also when the call as a whole fails.
C14_NoCancelOnFailure ==
    (join_kind = "directory" /\ join_result # None)
    => /\ \A i \in 1..Len(subs) : subs[i].st \in {"ok", "err"}
       /\ cache_kind = "HashMap" =>
             \A i \in SubsOk :
                 /\ KeyServerInfoCacheKey(subs[i].id) \in DOMAIN key_server_info_cache
                 /\ key_server_info_cache[KeyServerInfoCacheKey(subs[i].id)]
                        = KeyServerInfo(subs[i].id)

\* A lookup failed first, another succeeded after it and its record is cached.
C14_Witness ==
    /\ join_kind = "directory"
    /\ cache_kind = "HashMap"
    /\ join_result # None
    /\ ~join_result.ok
    /\ Len(order) >= 2
    /\ order[1] \in SubsFailed
    /\ order[2] \in SubsOk
    /\ KeyServerInfoCacheKey(subs[order[2]].id) \in DOMAIN key_server_info_cache

\* The k-th sub-request, in the order pushed, among those that succeeded.
KthOk(k) == CHOOSE i \in SubsOk : Cardinality({j \in SubsOk : j < i}) = k - 1

\* The failed sub-request pushed first.
FirstFailed == CHOOSE i \in SubsFailed : \A j \in SubsFailed : i <= j

\* C15.  What fetch_key_server_info and fetch_derived_keys return depends
\* only on which sub-requests succeeded and which failed, not on the order
\* in which they completed: the records or responses in the order the
\* servers were passed in, the error of the failed lookup pushed first, or
\* InsufficientKeys with the number of successes.
C15_OrderIndependent ==
    join_result # None =>
        IF join_kind = "directory"
        THEN join_result =
                 IF SubsFailed = {}
                 THEN Ok([i \in 1..Len(subs) |-> KeyServerInfo(subs[i].id)])
                 ELSE [ok |-> FALSE,
                       err |-> [kind |-> "SuiClient", id |-> subs[FirstFailed].id]]
        ELSE join_result =
                 IF Cardinality(SubsOk) >= call.threshold
                 THEN Ok([k \in 1..Cardinality(SubsOk) |->
                             <<subs[KthOk(k)].id,
                               FetchKeyResponse(subs[KthOk(k)].id, call.request, TRUE)>>])
                 ELSE [ok |-> FALSE,
                       err |-> [kind |-> "InsufficientKeys",
                                received |-> Cardinality(SubsOk),
                                threshold |-> call.threshold]]

\* A fetch whose responses arrived in another order than the servers were
\* passed in.
C15_Witness ==
    /\ join_kind = "fetch"
    /\ join_result # None
    /\ join_result.ok
    /\ Len(join_result.val) >= 2
    /\ \E k \in 1..(Len(order) - 1) :
          order[k] > order[k + 1] /\ order[k] \in SubsOk /\ order[k + 1] \in SubsOk

\* C16.  SessionKey::new ends with the invalid-ttl error exactly when
\* ttl_min is outside 1..30 (0 and 31 are rejected, 1 and 30 are not), that
\* error names the bounds and the value received, and no signer operation
\* has been made when it is returned.
C16_TtlChecked ==
    (session # None /\ session.result # None)
    => /\ (~session.result.ok /\ session.result.err.kind = "InvalidTTLMin")
             <=> session.ttl_min \notin 1..30
       /\ session.ttl_min \notin 1..30
             => /\ session.result.err = [kind |-> "InvalidTTLMin", min |-> 1, max |-> 30,
                                         received |-> session.ttl_min]
                /\ session.ops = <<>>
       /\ session.result.ok => session.ops = SignerOps

\* A ttl of 31 minutes was rejected before the signer was used.
C16_Witness ==
    /\ session # None
    /\ session.ttl_min = 31
    /\ session.result # None
    /\ ~session.result.ok
    /\ session.ops = <<>>

\* C17.  A sub-request of fetch_derived_keys is answered from the cache,
\* with the response stored, only if the cache is the HashMap one and a POST
\* with the same request, the same server and the same threshold was
\* answered before; in every other case (another request, another server,
\* another threshold, no cache) it issues a POST.
C17_ExactTripleMemo ==
    [][\A i \in (DOMAIN subs) \cap (DOMAIN subs') :
          (join_kind = "fetch" /\ join_kind' = "fetch" /\ call' = call
              /\ subs[i].st = "new" /\ subs'[i].st # "new")
          => IF /\ cache_kind = "HashMap"
                /\ [request |-> call.request, server_id |-> subs[i].id,
                    threshold |-> call.threshold] \in posted
             THEN /\ subs'[i].st = "ok"
                  /\ subs'[i].out =
                        Ok(<<subs[i].id, FetchKeyResponse(subs[i].id, call.request, TRUE)>>)
             ELSE subs'[i].st = "inflight"]_vars

\* The second fetch repeats a request to a server that answered it, under
\* another threshold, and its POST is under way.
C17_Witness ==
    /\ cache_kind = "HashMap"
    /\ join_kind = "fetch"
    /\ refetch
    /\ Len(subs) = 1
    /\ subs[1].st = "inflight"
    /\ \E p \in posted :
          /\ p.request = call.request
          /\ p.server_id = subs[1].id
          /\ p.threshold # call.threshold

\* Server s is in the responses with a share of the envelope's full id that
\* verifies.
Supplied(s, encrypted_object) ==
    \E i \in 1..Len(seal_args.seal_responses) :
        seal_args.seal_responses[i] =
            <<s, FetchKeyResponse(s, RequestFor(encrypted_object.id), TRUE)>>

\* The envelopes of the call of which a listed server supplied no such share.
Unsupplied ==
    {n \in 1..Len(seal_args.encrypted_objects) :
        \E j \in 1..Len(seal_args.encrypted_objects[n].services) :
            ~Supplied(seal_args.encrypted_objects[n].services[j][1],
                      seal_args.encrypted_objects[n])}

\* Every response of the call holds shares that verify.
AllSharesVerify ==
    \A i \in 1..Len(seal_args.seal_responses) :
        \E s \in Servers, id \in Ids :
            seal_args.seal_responses[i] = <<s, FetchKeyResponse(s, RequestFor(id), TRUE)>>

\* The distinct servers an envelope's services name.
ServersNamed(encrypted_object) ==
    {encrypted_object.services[j][1] : j \in 1..Len(encrypted_object.services)}

\* The envelopes of the call that name fewer distinct servers than their
\* own threshold.
Shortfall ==
    {n \in 1..Len(seal_args.encrypted_objects) :
        Cardinality(ServersNamed(seal_args.encrypted_objects[n]))
            < seal_args.encrypted_objects[n].threshold}

Listed == [j \in 1..Len(objects[1].services) |-> objects[1].services[j][1]]

\* The first of them whose record holds a key that does not decode.
FirstBadKey ==
    Listed[CHOOSE j \in 1..Len(Listed) :
              /\ chain[Listed[j]] # "good"
              /\ \A k \in 1..(j - 1) : chain[Listed[k]] = "good"]

\* C19.  When the record of a resolved server holds a key of the wrong
\* length or 96 bytes that encode no group element, the encrypt or decrypt
\* call fails with InvalidPublicKey carrying that key, and returns no
\* envelope and no plaintext.
C19_InvalidPublicKeyForEveryBadKey ==
    /\ ( /\ pc = "done"
         /\ objects # <<>>
         /\ \A i \in 1..Len(objects) : objects[i] \notin UndecodableBytes
         /\ outcome # None
         /\ \E j \in 1..Len(Listed) : chain[Listed[j]] # "good"
         /\ \A j \in 1..Len(Listed) : chain[Listed[j]] # "nothex" )
       => /\ ~outcome.ok
          /\ outcome.err.kind # "SuiClient"
                => /\ outcome.err.kind = "InvalidPublicKey"
                   /\ outcome.err.public_key = KeyText(chain[FirstBadKey], FirstBadKey)
    /\ ( /\ pc = "done"
         /\ objects = <<>>
         /\ outcome # None
         /\ ~outcome.ok
         /\ outcome.err.kind # "SuiClient"
         /\ \A s \in Servers : chain[s] # "nothex" )
       => outcome.err.kind = "InvalidPublicKey"

\* C20.  A decrypt call handed a byte string that decodes to no envelope
\* ends at once with the decoding error: the directory cache is as it was,
\* no request has been built and no future for a POST exists.
C20_DecodeErrorsFirst ==
    [][(pc = "idle" /\ \E i \in 1..Len(objects) : objects[i] \in UndecodableBytes)
          => /\ pc' = "done"
             /\ outcome' = Err("BCS")
             /\ key_server_info_cache' = key_server_info_cache
             /\ derived_key_cache' = derived_key_cache
             /\ call' = None
             /\ tasks' = <<>>]_vars

\* An envelope followed by undecodable bytes: the call ended with the
\* decoding error and the caching client's directory cache is still empty.
C20_Witness ==
    /\ pc = "done"
    /\ outcome = Err("BCS")
    /\ cache_kind = "HashMap"
    /\ key_server_info_cache = EmptyMap
    /\ Len(objects) = 2
    /\ objects[1] \in EnvelopeChoices
    /\ objects[2] \in UndecodableBytes
    /\ chain = [s \in Servers |-> "good"]

\* The secret key belongs to the public key and the verification key.
KeypairMatches(enc_secret, enc_key, enc_verification_key) ==
    /\ enc_key.elgamal_pk = enc_secret.elgamal_sk
    /\ enc_verification_key.elgamal_vk = enc_secret.elgamal_sk

\* C23.  No two get_fetch_key_request calls, on the same session or on
\* different ones, return the same encapsulation secret, and the secret a
\* call returns is the one of the enc_key and enc_verification_key in the
\* request it returns.
C23_FreshKeypairPerRequest ==
    /\ \A i, j \in 1..Len(requests) :
          i # j => requests[i].result.enc_secret # requests[j].result.enc_secret
    /\ \A i \in 1..Len(requests) :
          KeypairMatches(requests[i].result.enc_secret,
                         requests[i].result.request.enc_key,
                         requests[i].result.request.enc_verification_key)

\* Two calls on the same session for the same approval transaction, and a
\* third on the session of another user.
C23_Witness ==
    /\ Len(requests) = 3
    /\ requests[1].session_key = requests[2].session_key
    /\ requests[1].approve_transaction_data = requests[2].approve_transaction_data
    /\ requests[3].session_key.address # requests[1].session_key.address
    /\ requests[1].result.enc_secret # requests[2].result.enc_secret

\* C25.  In every request get_fetch_key_request returns, request_signature
\* verifies under the session's ephemeral key, not under the user's key,
\* and signs the encoding of {the approval payload, the request's enc_key,
\* the request's enc_verification_key}; the certificate carries that same
\* ephemeral public key, the user's signature (which verifies under the
\* user's key), the user's address and the session's ttl.
C25_RequestConsistent ==
    \A i \in 1..Len(requests) :
        LET session_key == requests[i].session_key
            request == requests[i].result.request
            user == session_key.personal_message_signer_address_and_public_key
        IN  /\ request.ptb = base64_encode(requests[i].approve_transaction_data)
            /\ request.request_signature.verifies_under = Ed25519Public(session_key.session_key)
            /\ request.request_signature.verifies_under # user[2]
            /\ request.request_signature.message =
                   bcs_to_bytes([ptb |-> requests[i].approve_transaction_data,
                                 enc_key |-> bcs_to_bytes(request.enc_key),
                                 enc_verification_key |->
                                     bcs_to_bytes(request.enc_verification_key)])
            /\ request.certificate.session_vk = request.request_signature.verifies_under
            /\ request.certificate.signature.signature = session_key.personal_message_signature
            /\ request.certificate.signature.signature.verifies_under = user[2]
            /\ request.certificate.signature.public_key = user[2]
            /\ request.certificate.user = user[1]
            /\ request.certificate.ttl_min = session_key.ttl_min

\* Two requests of one session carrying different encapsulation keys, each
\* signed over its own.
C25_Witness ==
    /\ Len(requests) >= 2
    /\ requests[1].session_key = requests[2].session_key
    /\ requests[1].result.request.enc_key # requests[2].result.request.enc_key
    /\ requests[1].result.request.request_signature
          # requests[2].result.request.request_signature
    /\ requests[1].result.request.certificate = requests[2].result.request.certificate

\* A key-release request of the running decrypt call has been started.
PostStarted == \E i \in 1..Len(tasks) : tasks[i].st # "new"

\* C21.  The decrypt call goes through directory resolution, request
\* construction, key fetch and combination in that order: a key-release
\* request is started only when every server the envelope lists has been
\* resolved and its key decoded, and the keypair of the request drawn; when
\* the resolution or the decoding of a key fails, no keypair has been drawn
\* and no request started; the combiner runs only after the fetch ended.
C21_StagesInOrder ==
    /\ (call # None \/ PostStarted)
          => /\ rng = 1
             /\ call # None
             /\ call.enc_secret = genkey(1)[1]
             /\ \A j \in 1..Len(Listed) :
                   /\ chain[Listed[j]] = "good"
                   /\ Listed[j] \in DOMAIN call.servers_public_keys_map
                   /\ call.servers_public_keys_map[Listed[j]] = PublicKey(Listed[j])
                   /\ cache_kind = "HashMap"
                         => KeyServerInfoCacheKey(Listed[j]) \in DOMAIN key_server_info_cache
    /\ ( \/ \E j \in 1..Len(Listed) : chain[Listed[j]] # "good"
         \/ outcome # None /\ ~outcome.ok /\ outcome.err.kind = "SuiClient" )
          => /\ rng = 0
             /\ call = None
             /\ tasks = <<>>
             /\ derived_key_cache = EmptyMap
    /\ (outcome # None /\ call # None)
          => /\ fetched # None
             /\ \A i \in 1..Len(tasks) : tasks[i].st \in {"ok", "err"}

\* The record of the second server the envelope lists holds no group
\* element: the call ended without a keypair drawn or a request started.
C21_Witness ==
    /\ pc = "done"
    /\ Len(Listed) = 2
    /\ chain[Listed[1]] = "good"
    /\ chain[Listed[2]] = "badpoint"
    /\ outcome = Err("FastCrypto")
    /\ rng = 0
    /\ tasks = <<>>

\* The computations started for server s by the running call.
SentTo(s) == {i \in 1..Len(subs) : subs[i].id = s /\ subs[i].sent >= 1}

\* C22 (as claimed).  Within one fetch or one resolve each server of the
\* list is sent at most one POST, or looked up at most once.
C22_OncePerServer ==
    \A s \in Servers :
        /\ Cardinality(SentTo(s)) <= 1
        /\ \A i \in SentTo(s) : subs[i].sent = 1

\* C22 (amended).  Within one fetch or one resolve the computation of each
\* entry of the list is started at most once, and a sub-request that failed
\* stays failed, with its error, until the call returns.
C22_NoRetry ==
    /\ [](\A i \in 1..Len(subs) : subs[i].sent <= 1)
    /\ [][\A i \in (DOMAIN subs) \cap (DOMAIN subs') :
             (subs[i].st = "err" /\ ~(refetch' /\ ~refetch))
             => subs'[i] = subs[i]]_vars

\* A fetch over three servers returned after the POST to the second one
\* had failed; every server was sent one POST.
C22_Witness ==
    /\ join_kind = "fetch"
    /\ join_result # None
    /\ ~refetch
    /\ Len(subs) = 3
    /\ subs[2].st = "err"
    /\ \A i \in 1..3 : subs[i].sent = 1
    /\ \A s \in Servers : Cardinality(SentTo(s)) = 1

\* The body of the POST of future i (base_client.rs 345, 359-362).
PostBody(i) == to_json_string(call.request)

\* The keys a request, or the body made of it, carries: in its fields and in
\* the bytes its signature is over.
KeysCarried(request) ==
    { request.enc_key,
      request.enc_verification_key,
      request.request_signature.message.bcs.enc_key.bcs,
      request.request_signature.message.bcs.enc_verification_key.bcs }

\* The keys a cached response carries.
KeysInResponse(value) ==
    UNION { {value[2].decryption_keys[k].encrypted_key.to,
             value[2].decryption_keys[k].encrypted_key.usk} :
            k \in 1..Len(value[2].decryption_keys) }

\* C24.  In every state of a decrypt call, the encapsulation secret the
\* call holds is in no POST body sent or about to be sent, in no key of the
\* fetch cache and in no value either cache stores.
C24_SecretStaysLocal ==
    call # None
    => /\ \A i \in 1..Len(tasks) : call.enc_secret \notin KeysCarried(PostBody(i).json)
       /\ \A k \in DOMAIN derived_key_cache :
             /\ call.enc_secret \notin KeysCarried(k.request)
             /\ call.enc_secret \notin KeysInResponse(derived_key_cache[k])
       /\ \A k \in DOMAIN key_server_info_cache :
             call.enc_secret # key_server_info_cache[k].public_key

\* Both servers answered and the caching client stored their responses,
\* which are encrypted to the public key of the secret the call holds.
C24_Witness ==
    /\ call # None
    /\ cache_kind = "HashMap"
    /\ Cardinality(DOMAIN derived_key_cache) = 2
    /\ \A k \in DOMAIN derived_key_cache :
          /\ k.request.enc_key.elgamal_pk = call.enc_secret.elgamal_sk
          /\ derived_key_cache[k][2].decryption_keys[1].encrypted_key.to = k.request.enc_key

\* C26.  The value stored under a key is, whole, a value that a successful
\* compute run for that key returned; a stored value changes only by an
\* insert that puts such a value in its place, and a step that hands a
\* caller its result without inserting leaves the map as it was.
C26_ReplacedNotPatched ==
    /\ [](\A k \in DOMAIN store :
            \E c \in DOMAIN callers :
                /\ callers[c].key = k
                /\ callers[c].computes = 1
                /\ callers[c].st = "done"
                /\ callers[c].result = Ok(<<k, c>>)
                /\ store[k] = <<k, c>>)
    /\ [][/\ \A k \in DOMAIN store' :
               (k \notin DOMAIN store \/ store'[k] # store[k])
               => \E c \in DOMAIN callers :
                      /\ callers[c].st = "insert"
                      /\ callers'[c].st = "done"
                      /\ callers[c].key = k
                      /\ store'[k] = callers[c].value
          /\ \A c \in DOMAIN callers :
               (callers[c].st = "get" /\ callers'[c].st = "done")
               => /\ store' = store
                  /\ callers'[c].result = Ok(store[callers[c].key])]_vars

\* The value a first call stored was replaced by the value of a second call
\* of the same key; each of the two callers was handed its own value.
C26_Witness ==
    /\ cache_kind = "HashMap"
    /\ \E c, d \in DOMAIN callers :
          /\ c # d
          /\ callers[c].key = callers[d].key
          /\ callers[c].st = "done"
          /\ callers[d].st = "done"
          /\ callers[c].result = Ok(<<callers[c].key, c>>)
          /\ callers[d].result = Ok(<<callers[c].key, d>>)
          /\ store[callers[c].key] = <<callers[c].key, d>>

\* C27.  The map-backed cache never loses an entry: every step leaves every
\* key that was in the map in the map.
C27_EntriesKept ==
    [][(DOMAIN store) \subseteq (DOMAIN store')]_vars

\* Both keys are in the map once the calls are done.
C27_Witness ==
    /\ cache_kind = "HashMap"
    /\ DOMAIN store = CacheKeys
    /\ \A c \in DOMAIN callers : callers[c].st = "done"

Triple(i) ==
    [request |-> call.request, server_id |-> subs[i].id, threshold |-> call.threshold]

\* C29.  With the map-backed cache, in a fetch made after an earlier fetch
\* returned (with its responses or with InsufficientKeys), a sub-request
\* whose request, server and threshold got a successful answer before sends
\* no POST and yields the stored response of that server, and every other
\* sub-request, its earlier POST having failed or never been made, sends
\* its POST.
C29_FailuresNotMemoized ==
    [][\A i \in 1..Len(subs) :
          ( /\ cache_kind = "HashMap"
            /\ join_kind = "fetch"
            /\ refetch
            /\ i <= Len(subs')
            /\ subs[i].st = "new"
            /\ subs'[i].st # "new" )
          => IF Triple(i) \in posted
             THEN /\ subs'[i].st = "ok"
                  /\ subs'[i].sent = 0
                  /\ subs'[i].out =
                        Ok(<<subs[i].id, FetchKeyResponse(subs[i].id, call.request, TRUE)>>)
             ELSE /\ subs'[i].st = "inflight"
                  /\ subs'[i].sent = 1]_vars

\* A fetch from two servers with threshold two got one answer and ended
\* with InsufficientKeys; in the repeat the server that answered is served
\* from the cache, the other is sent its POST again and answers, and the
\* repeat returns both responses.
C29_Witness ==
    /\ cache_kind = "HashMap"
    /\ join_kind = "fetch"
    /\ refetch
    /\ call.threshold = 2
    /\ Len(subs) = 2
    /\ subs[1].id # subs[2].id
    /\ subs[1].st = "ok" /\ subs[1].sent = 0
    /\ subs[2].st = "ok" /\ subs[2].sent = 1
    /\ join_result # None
    /\ join_result.ok
    /\ Len(join_result.val) = 2

PostsTo(s) == {i \in 1..Len(tasks) : tasks[i].server = s /\ tasks[i].st # "new"}

\* The decrypt call got its responses and handed them to the combiner.
Combined == pc = "done" /\ fetched # None /\ fetched.ok

\* The shares released to the call, as <<response number, key number>>.
ReleasedShares ==
    UNION {{<<i, k>> : k \in 1..Len(fetched.val[i][2].decryption_keys)} :
              i \in 1..Len(fetched.val)}

\* The number of times the combiner verified share p.
TimesVerified(p) ==
    LET calls == verify_calls(call.enc_secret, fetched.val, objects,
                              call.servers_public_keys_map)
    IN  Cardinality({n \in 1..Len(calls) : calls[n] = p})

\* C31 (as claimed).  In a decrypt call each server is sent at most one POST
\* and each released share is verified exactly once.
C31_OnePostAndOneVerification ==
    /\ \A s \in Servers : Cardinality(PostsTo(s)) <= 1
    /\ Combined => \A p \in ReleasedShares : TimesVerified(p) = 1

\* C31 (amended).  However many envelopes the call holds, the fetch has one
\* future, hence at most one POST, per entry of the first envelope's
\* services, and the combiner verifies each released share at most once,
\* and exactly once when every response verifies and no two responses are
\* of one server.
C31_OneRoundForAllEnvelopes ==
    /\ tasks # <<>>
       => /\ Len(tasks) = Len(objects[1].services)
          /\ \A i \in 1..Len(tasks) : tasks[i].server = objects[1].services[i][1]
    /\ Combined
       => /\ \A p \in ReleasedShares : TimesVerified(p) <= 1
          /\ ( /\ ~DuplicateServerId(fetched.val)
               /\ \A i \in 1..Len(fetched.val) :
                     fetched.val[i][2] =
                         FetchKeyResponse(fetched.val[i][1], call.request, TRUE) )
             => \A p \in ReleasedShares : TimesVerified(p) = 1

\* Two envelopes of servers 1 and 2 were decrypted in one call, with one
\* POST to each server and each of the two shares verified once.
C31_Witness ==
    /\ Combined
    /\ Len(objects) = 2
    /\ Len(tasks) = 2
    /\ Cardinality(PostsTo(1)) = 1
    /\ Cardinality(PostsTo(2)) = 1
    /\ outcome = Ok(<< <<>>, <<0, 1, 2, 3>> >>)
    /\ \A p \in ReleasedShares : TimesVerified(p) = 1

\* C32.  The creation time the session stores, and sends in every
\* certificate, denotes the second that the message the user signed names:
\* the message rebuilt from the certificate is the message signed.
C32_CertificateTimeIsSignedTime ==
    (session # None /\ session.pc = "done")
    => LET certificate == get_certificate(session.result.val)
       IN  /\ certificate.creation_time \div 1000 = session.now_ms \div 1000
           /\ certificate.signature.signature.message =
                  bcs_to_bytes(signed_message(session.result.val.package_id,
                                              certificate.session_vk,
                                              certificate.creation_time,
                                              certificate.ttl_min))

\* The servers whose record the call looked up, as far as the cache shows.
LookedUp == {s \in Servers : KeyServerInfoCacheKey(s) \in DOMAIN key_server_info_cache}

\* The servers that released a share that verifies to the call.
ValidlyAnswered ==
    {s \in Servers :
        \E i \in 1..Len(tasks) :
            /\ tasks[i].st = "ok"
            /\ tasks[i].resp = <<s, FetchKeyResponse(s, call.request, TRUE)>>}

\* C33.  In a decrypt call of several envelopes only the servers the first
\* envelope lists are looked up and sent a POST, and the fetch succeeds
\* exactly when the first envelope's threshold of them answered; a call
\* with a later envelope that lists a server the first does not list
\* fails; and a call succeeds only if, for each envelope, the distinct
\* servers it lists number at least its own threshold and all released a
\* share that verifies.
C33_FirstEnvelopeDecidesTheFetch ==
    objects # <<>>
    => /\ LookedUp \subseteq ServersNamed(objects[1])
       /\ \A i \in 1..Len(tasks) : tasks[i].server \in ServersNamed(objects[1])
       /\ pc = "fetch" => call.threshold = objects[1].threshold
       /\ (pc = "done" /\ fetched # None)
          => fetched.ok <=>
               Cardinality({i \in 1..Len(tasks) : tasks[i].st = "ok"})
                   >= objects[1].threshold
       /\ (pc = "done" /\ \E n \in 2..Len(objects) :
                              ~(ServersNamed(objects[n]) \subseteq ServersNamed(objects[1])))
          => ~outcome.ok
       /\ (pc = "done" /\ outcome.ok)
          => \A n \in 1..Len(objects) :
                /\ Cardinality(ServersNamed(objects[n])) >= objects[n].threshold
                /\ ServersNamed(objects[n]) \subseteq ValidlyAnswered

\* Servers 1 and 2 of the first envelope were looked up and both released
\* their share, more than the first envelope's threshold of one; the second
\* envelope lists server 3, which was never asked, and the call failed.
C33_Witness ==
    /\ pc = "done"
    /\ cache_kind = "HashMap"
    /\ Len(objects) = 2
    /\ ServersNamed(objects[1]) = {1, 2}
    /\ objects[1].threshold = 1
    /\ ServersNamed(objects[2]) = {1, 3}
    /\ LookedUp = {1, 2}
    /\ ValidlyAnswered = {1, 2}
    /\ fetched.ok
    /\ outcome = Err("MissingServerShare")

\* C34.  In every envelope an encrypt call returns, the i-th share is
\* encrypted under the public key that the record of the i-th server id of
\* the call holds, whatever the order in which the lookups completed and
\* whether a record came from the cache or from a lookup.
C34_KeysFollowTheServerList ==
    (pc = "done" /\ join_kind = "directory" /\ outcome.ok)
    => \A n \in 1..Len(outcome.val) :
          /\ Len(outcome.val[n].encrypted_shares) = Len(call.key_servers)
          /\ \A i \in 1..Len(call.key_servers) :
                /\ decode_public_key(KeyServerInfo(call.key_servers[i])).ok
                /\ outcome.val[n].encrypted_shares[i].to =
                       decode_public_key(KeyServerInfo(call.key_servers[i])).val
                /\ outcome.val[n].encrypted_shares[i].to = PublicKey(call.key_servers[i])

\* The lookup of server 2 completed before that of server 1, and the
\* envelope made for servers 1 and 2 has its first share under the key of
\* server 1 and its second under the key of server 2.
C34_Witness ==
    /\ pc = "done"
    /\ join_kind = "directory"
    /\ call.key_servers = <<1, 2>>
    /\ order = <<2, 1>>
    /\ outcome.ok
    /\ Len(outcome.val) >= 1
    /\ outcome.val[1].encrypted_shares = <<[to |-> PublicKey(1)], [to |-> PublicKey(2)]>>

\* C35.  No decrypt call finds a response in the derived-keys cache: the
\* first poll of every future of every call sends its POST, and with the
\* map cache each server that answers a call successfully adds one entry,
\* under a key no earlier call used.
C35_NoEntrySharedBetweenCalls ==
    [][\A i \in (DOMAIN tasks) \cap (DOMAIN tasks') :
          /\ (tasks[i].st = "new" /\ tasks'[i].st # "new")
             => tasks'[i].st = "inflight"
          /\ (cache_kind = "HashMap" /\ tasks[i].st = "inflight" /\ tasks'[i].st = "ok")
             => LET cache_key == DerivedKeyCacheKey(call.request, tasks[i].server,
                                                    call.threshold)
                IN  /\ DOMAIN derived_key_cache' = DOMAIN derived_key_cache \cup {cache_key}
                    /\ cache_key \in DOMAIN derived_key_cache
                       => \E j \in DOMAIN tasks :
                              /\ j # i
                              /\ tasks[j].server = tasks[i].server
                              /\ tasks[j].st = "ok"]_vars

\* With the map cache a second decrypt call of the envelope of servers 1
\* and 2 sent its two POSTs, and the cache holds four entries, two of each
\* call.
C35_Witness ==
    /\ cache_kind = "HashMap"
    /\ rng = 2
    /\ pc = "done"
    /\ Len(tasks) = 2
    /\ tasks[1].server # tasks[2].server
    /\ tasks[1].st = "ok"
    /\ tasks[2].st = "ok"
    /\ Cardinality(DOMAIN derived_key_cache) = 4

\* C36.  A decrypt call with no envelope returns the empty list of
\* plaintexts and changes nothing else: both caches keep their contents, no
\* keypair is drawn, no request and no future is made.
C36_EmptyCallHasNoEffect ==
    [][(objects = <<>> /\ pc = "idle" /\ pc' # "idle")
       => /\ pc' = "done"
          /\ outcome' = Ok(<<>>)
          /\ key_server_info_cache' = key_server_info_cache
          /\ derived_key_cache' = derived_key_cache
          /\ rng' = rng
          /\ call' = call
          /\ tasks' = <<>>
          /\ objects' = objects]_vars

\* The call with no envelope has returned the empty list.
C36_Witness ==
    /\ objects = <<>>
    /\ pc = "done"
    /\ outcome = Ok(<<>>)
    /\ rng = 0
    /\ call = None
    /\ tasks = <<>>
    /\ key_server_info_cache = EmptyMap
    /\ derived_key_cache = EmptyMap

\* C37.  A decrypt call over at least one envelope that has returned with
\* no future of its fetch ended Ok has returned an error, whatever the
\* thresholds and the services of the envelopes.
C37_NoSuccessWithoutAnAnswer ==
    ( /\ pc = "done"
      /\ objects # <<>>
      /\ \A i \in 1..Len(tasks) : tasks[i].st # "ok" )
    => ~outcome.ok

\* The envelope has threshold 0 and its one server did not answer: the
\* fetch returned its empty list of responses and the call failed in the
\* combiner.
C37_Witness ==
    /\ pc = "done"
    /\ Len(objects) >= 1
    /\ objects[1].threshold = 0
    /\ Len(tasks) = 1
    /\ tasks[1].st = "err"
    /\ fetched = Ok(<<>>)
    /\ outcome = Err("NoSealResponses")

\* The entries of the lookup list whose record does not decode.
Undecodable == {i \in 1..Len(subs) : ~decode_public_key(KeyServerInfo(subs[i].id)).ok}

\* Entries answered from the cache with a record that does not decode.
ServedUndecodable == {i \in Undecodable : subs[i].st = "ok" /\ subs[i].sent = 0}

\* A call has gone through its lookups.
LookupsOver == join_kind = "directory" /\ join_result # None

\* C38 as stated: a later encrypt or decrypt call naming a server whose
\* undecodable record is cached fails with the decode error.
C38_DecodeErrorOnEveryLaterCall ==
    (LookupsOver /\ ServedUndecodable # {})
    => /\ pc = "done"
       /\ ~outcome.ok
       /\ \E i \in Undecodable : outcome = decode_public_key(KeyServerInfo(subs[i].id))

\* C38 amended: with the map-backed cache every record the directory
\* returns is stored, decodable or not, and stays stored; a lookup of a
\* stored record never asks the directory; and a call served an undecodable
\* record from the cache fails, with the error of the first failed lookup
\* in list order if a lookup of another listed server failed, otherwise
\* with the decode error of the first undecodable listed record.
C38_UndecodableRecordStaysCached ==
    /\ []((LookupsOver /\ ServedUndecodable # {})
          => /\ pc = "done"
             /\ ~outcome.ok
             /\ LET failed == {i \in 1..Len(subs) : subs[i].st = "err"}
                    first(S) == CHOOSE i \in S : \A j \in S : i <= j
                IN  IF failed # {}
                    THEN outcome = subs[first(failed)].out
                    ELSE outcome =
                             decode_public_key(KeyServerInfo(subs[first(Undecodable)].id)))
    /\ [][(join_kind = "directory" /\ cache_kind = "HashMap")
          => /\ \A i \in 1..Len(subs) :
                    (i <= Len(subs') /\ subs[i].st = "inflight" /\ subs'[i].st = "ok")
                    => /\ KeyServerInfoCacheKey(subs[i].id) \in DOMAIN key_server_info_cache'
                       /\ key_server_info_cache'[KeyServerInfoCacheKey(subs[i].id)] =
                              KeyServerInfo(subs[i].id)
             /\ \A k \in DOMAIN key_server_info_cache :
                    /\ k \in DOMAIN key_server_info_cache'
                    /\ key_server_info_cache'[k] = key_server_info_cache[k]
             /\ \A i \in 1..Len(subs) :
                    (/\ i <= Len(subs')
                     /\ subs[i].st = "new"
                     /\ subs'[i].st # "new"
                     /\ KeyServerInfoCacheKey(subs[i].id) \in DOMAIN key_server_info_cache)
                    => subs'[i].st = "ok" /\ subs'[i].sent = 0]_vars

\* A decrypt call is served the undecodable record an earlier call stored,
\* asks the directory nothing and fails with the decode error.
C38_Witness ==
    /\ LookupsOver
    /\ pc = "done"
    /\ call = None
    /\ objects # <<>>
    /\ ServedUndecodable # {}
    /\ \A i \in 1..Len(subs) : subs[i].sent = 0
    /\ \E i \in ServedUndecodable :
          outcome = decode_public_key(KeyServerInfo(subs[i].id))

\* The lock is free or held by a caller inside the lookup or the insert.
LockOnlyForLookupAndInsert ==
    /\ lock \in Callers => callers[lock].st \in {"get", "insert"}
    /\ \A c \in Callers :
          callers[c].st \in {"called", "computing", "lock_insert", "done"} => lock # c

\* C39: the map-backed cache holds its lock only for the lookup and for the
\* insert, never while a compute runs; so whatever the computes of other
\* callers do, even if they never finish, a call gets through its lookup
\* (to a hit that returns or to its own compute), and a call whose compute
\* has finished returns.
C39_NoLockAcrossCompute ==
    /\ []LockOnlyForLookupAndInsert
    /\ \A c \in Callers :
          /\ (callers[c].st = "called") ~> (callers[c].st \in {"computing", "done"})
          /\ (callers[c].st \in {"lock_insert", "insert"}) ~> (callers[c].st = "done")

\* With the map-backed cache one caller is still inside its compute, the
\* lock is free, and a caller of another key has computed, stored and
\* returned its value.
C39_Witness ==
    /\ cache_kind = "HashMap"
    /\ lock = 0
    /\ \E c, d \in Callers :
          /\ callers[c].st = "computing"
          /\ callers[c].computes = 0
          /\ callers[d].key # callers[c].key
          /\ callers[d].st = "done"
          /\ callers[d].computes = 1
          /\ callers[d].result = Ok(callers[d].value)
          /\ callers[d].key \in DOMAIN store

====
